---- MODULE Spec2Model ----
(***************************************************************************)
(* Adaptive routing and layer activation of the cortex-unifi activator:    *)
(* the routing cascade of process_query_internal, LayerManager's readiness *)
(* state machine and QdrantLearningClient's similarity lookup and stores.  *)
(*                                                                         *)
(* A coroutine is suspended only at an await.  Every action below is the   *)
(* arrival of the answer to the call a coroutine is suspended on, followed *)
(* by all the code that runs until its next await; pc names the pending    *)
(* call.  Sections of code are operators from a state record to a state    *)
(* record, composed in program order.                                      *)
(*                                                                         *)
(* Units: success rates, similarities and confidences are exact rationals  *)
(* <<numerator, denominator>>; wall-clock time is in whole seconds.        *)
(***************************************************************************)
EXTENDS Integers, Sequences, FiniteSets, TLC

\* ---------------------------------------------------------------- bounds
\* Direct calls of ensure_ready in one behaviour of SpecReady.
MaxCalls == 2
\* Health probes issued by the /status, /ready and startup handlers.
MaxProbes == 1
\* Candidates in one similarity search answer (the code asks for at most 5).
MaxResults == 2
\* Direct calls of the learning client in one behaviour of SpecLearning.
MaxOps == 2
\* Attempts of one retry loop in one behaviour of SpecRetry.
MaxAttempts == 4
\* uuid4 values drawn in one behaviour of SpecFresh (two per query).
MaxIds == 4

\* ------------------------------------------------------ program constants
WAKE_TIMEOUT == 60
POLL_INTERVAL == 1
HEALTH_TIMEOUT == 5
MIN_SAMPLES == 3
SEARCH_LIMIT == 5

None == "None"

\* ------------------------------------------------------------- rationals
RECURSIVE GCD(_, _)
GCD(a, b) == IF b = 0 THEN a ELSE GCD(b, a % b)

Rat(n, d) ==
  LET g == GCD(n, d) IN IF g = 0 THEN <<0, 1>> ELSE <<n \div g, d \div g>>

RatMul(a, b) == Rat(a[1] * b[1], a[2] * b[2])
RatGE(a, b) == a[1] * b[2] >= b[1] * a[2]
RatIsZero(a) == a[1] = 0

\* record_feedback's success_rate_adjustment.
FEEDBACK_PENALTY == Rat(-1, 10)
\* QdrantConfig defaults.
SIMILARITY_THRESHOLD == Rat(92, 100)
MIN_SUCCESS_RATE == Rat(80, 100)
\* route_confidence of a keyword match.
KEYWORD_CONFIDENCE == Rat(95, 100)
ZeroConfidence == Rat(0, 1)

\* ---------------------------------------------------------------- layers
LAYERS ==
  { "reasoning-classifier", "reasoning-slm", "execution-unifi-api",
    "execution-unifi-ssh", "cortex-qdrant", "cortex-telemetry" }

LayerState == { "cold", "warming", "warm", "unhealthy" }

\* exec_layer.startswith("execution-unifi-")
IsExecutionLayer(layer) ==
  layer \in { "execution-unifi-api", "execution-unifi-ssh", "execution-unifi-" }

\* f"execution-unifi-{rule.execution}"
ExecutionLayerOf(execution) ==
  CASE execution = "api" -> "execution-unifi-api"
    [] execution = "ssh" -> "execution-unifi-ssh"
    [] OTHER -> "execution-unifi-"

\* ------------------------------------------------------- query text model
\* A query is a sequence of tokens.  str.lower() and the substring relation
\* are tabulated over the vocabulary; NL is a line break, which "." in a
\* pattern does not match.
NL == "\n"

Lower(w) ==
  CASE w = "LIST" -> "list"
    [] w = "Devices" -> "devices"
    [] w = "Why" -> "why"
    [] OTHER -> w

\* The keywords that occur as substrings of an (already lower-case) word.
SubstringsOf(w) ==
  CASE w = "unblock" -> { "unblock", "block" }
    [] w = "devices" -> { "devices", "device" }
    [] w = "clients" -> { "clients", "client" }
    [] w = "logs" -> { "logs", "log" }
    [] w = "networks" -> { "networks", "network" }
    [] w = "analyzer" -> { "analyzer", "analyze" }
    [] OTHER -> { w }

\* query.lower()
LowerQuery(query) == [i \in DOMAIN query |-> Lower(query[i])]

Has(word, kws) == SubstringsOf(word) \cap kws # {}

\* re.search of "(a|b).*c": an alternative of the first group, then, on the
\* same line, the second group.  An empty second group is a one-group pattern.
PatternSearch(first, second, text) ==
  IF second = {}
  THEN \E i \in DOMAIN text : Has(text[i], first)
  ELSE \E i \in DOMAIN text : \E j \in DOMAIN text :
         /\ i < j
         /\ Has(text[i], first)
         /\ Has(text[j], second)
         /\ \A k \in DOMAIN text : (i < k /\ k < j) => text[k] # NL

RoutingRule(first, second, tool, execution, confirm) ==
  [ first |-> first, second |-> second, tool |-> tool,
    execution |-> execution, requires_confirmation |-> confirm ]

ROUTING_RULES ==
  << RoutingRule({"block", "unblock"}, {"client"}, "client_management", "api", FALSE),
     RoutingRule({"list", "show", "get"}, {"client"}, "get_clients", "api", FALSE),
     RoutingRule({"restart", "reboot"}, {"device"}, "restart_device", "api", TRUE),
     RoutingRule({"list", "show", "get"}, {"device"}, "get_devices", "api", FALSE),
     RoutingRule({"create", "add"}, {"network"}, "create_network", "api", TRUE),
     RoutingRule({"list", "show", "get"}, {"network"}, "get_networks", "api", FALSE),
     RoutingRule({"diagnose", "troubleshoot", "debug"}, {}, "diagnostics", "ssh", FALSE),
     RoutingRule({"show", "get"}, {"log", "logs"}, "get_logs", "ssh", FALSE) >>

RuleMatches(rule, query) ==
  PatternSearch(rule.first, rule.second, LowerQuery(query))

\* classify as it would be if a later rule overrode an earlier one: the last
\* rule whose pattern is found.
classify_last(query) ==
  LET hits == { i \in DOMAIN ROUTING_RULES : RuleMatches(ROUTING_RULES[i], query) }
  IN IF hits = {} THEN 0
     ELSE CHOOSE i \in hits : \A j \in hits : i >= j

\* QueryRouter.classify: the index of the first rule whose pattern is found,
\* 0 for no rule (Python's None).
classify(query) ==
  LET hits == { i \in DOMAIN ROUTING_RULES : RuleMatches(ROUTING_RULES[i], query) }
  IN IF hits = {} THEN 0
     ELSE CHOOSE i \in hits : \A j \in hits : i <= j

\* QueryRouter.needs_reasoning: any complexity keyword is a substring of the
\* lower-cased query.  A keyword of several words lies on consecutive tokens.
ComplexityKeywords ==
  { <<"why">>, <<"investigate">>, <<"analyze">>, <<"figure", "out">>,
    <<"what's", "wrong">>, <<"troubleshoot">>, <<"explain">>,
    <<"help", "me", "understand">> }

KeywordAt(kw, text, i) ==
  /\ i + Len(kw) - 1 <= Len(text)
  /\ \A k \in DOMAIN kw : Has(text[i + k - 1], {kw[k]})

\* needs_reasoning as it would be without query.lower().
needs_reasoning_cased(query) ==
  \E kw \in ComplexityKeywords : \E i \in DOMAIN query : KeywordAt(kw, query, i)

needs_reasoning(query) ==
  LET text == LowerQuery(query)
  IN \E kw \in ComplexityKeywords : \E i \in DOMAIN text : KeywordAt(kw, text, i)

\* The requests of the model.
Queries ==
  { <<"LIST", "all", "Devices">>,
    <<"unblock", "clients">>,
    <<"show", "devices", "logs">>,
    <<"get", NL, "logs">>,
    <<"troubleshoot", "wifi">>,
    <<"Why", "is", "wifi", "slow">>,
    <<"figure", "out", "vlan">>,
    <<"hello">> }

\* -------------------------------------------------------- optional values
\* Python's None is the empty tuple and a present value v is <<v>>.
Null == <<>>
Some(v) == <<v>>

\* dict.get(key, default) on a payload whose absent keys are Null.
Get(payload, key, default) ==
  IF payload[key] = Null THEN default ELSE payload[key][1]

\* --------------------------------------------------------- learning store
RouteTypes == { "cache", "keyword", "similarity", "classifier", "slm" }

\* The payload of a point of the routing_queries collection.
Payload(qid, rtype, tool, layer, conf, success, rate, count, latency) ==
  [ query_id |-> qid, route_type |-> rtype, tool |-> tool,
    execution_layer |-> layer, confidence |-> conf, success |-> success,
    success_rate |-> rate, sample_count |-> count, avg_latency_ms |-> latency,
    success_rate_adjustment |-> Null ]

\* The point as it would be if store_routing counted the decision itself as
\* two successful samples.
DecisionPayload_optimistic(decision) ==
  Payload(Some(decision.query_id), Some(decision.route_type), Some(decision.tool),
          Some(decision.execution_layer), Some(decision.confidence),
          Null, Some(Rat(1, 1)), Some(2), Some(Rat(0, 1)))

\* store_routing: the point a decision is upserted as.
DecisionPayload(decision) ==
  Payload(Some(decision.query_id), Some(decision.route_type), Some(decision.tool),
          Some(decision.execution_layer), Some(decision.confidence),
          Null, Some(Rat(0, 1)), Some(1), Some(Rat(0, 1)))

\* One hit of a similarity search.
Hit(score, payload) == [ score |-> score, payload |-> payload ]

\* Points of earlier queries, as a search returns them: the documented example
\* and its variants.
ExamplePayload(count) ==
  Payload(Some(901), Some("keyword"), Some("get_devices"), Some("execution-unifi-api"),
          Some(KEYWORD_CONFIDENCE), Some(TRUE), Some(Rat(90, 100)), Some(count),
          Some(Rat(120, 1)))

Candidates ==
  { Hit(Rat(95, 100), ExamplePayload(5)),
    Hit(Rat(95, 100), ExamplePayload(2)),
    Hit(Rat(93, 100), [ExamplePayload(5) EXCEPT !.success_rate = Some(Rat(50, 100)),
                                                 !.query_id = Some(902)]),
    Hit(Rat(94, 100), [ExamplePayload(4) EXCEPT !.execution_layer = Some("reasoning-slm"),
                                                 !.route_type = Some("slm"),
                                                 !.tool = Some("unknown"),
                                                 !.success_rate = Some(Rat(1, 1)),
                                                 !.query_id = Some(903)]) }

\* Payloads store_routing does not write, which find_similar_route accepts as
\* its input all the same: no execution_layer, an unknown route type, a layer
\* that is not configured.
Foreign ==
  { Hit(Rat(96, 100), [ExamplePayload(5) EXCEPT !.execution_layer = Null,
                                                 !.query_id = Some(904)]),
    Hit(Rat(96, 100), [ExamplePayload(5) EXCEPT !.route_type = Some("bogus"),
                                                 !.query_id = Some(905)]),
    Hit(Rat(97, 100), [ExamplePayload(3) EXCEPT !.execution_layer = Some("execution-unifi-cli"),
                                                 !.query_id = Some(906)]) }

\* The points of the collection that pass the search filter success = True.
FromStore(pts) ==
  { Hit(Rat(95, 100), pts[id]) : id \in { i \in DOMAIN pts : pts[i].success = Some(TRUE) } }

RECURSIVE SeqsUpTo(_, _)
SeqsUpTo(S, n) ==
  IF n = 0 THEN { <<>> }
  ELSE LET shorter == SeqsUpTo(S, n - 1)
       IN shorter \cup { Append(s, e) : s \in { t \in shorter : Len(t) = n - 1 }, e \in S }

\* What the POST points/search may answer: a transport error or an
\* undecodable body, an error status, or up to MaxResults hits.  pool tells
\* what the collection holds besides pts: nothing ("stored"), the points of
\* earlier queries ("cascade"), or also payloads of other writers ("any").
SearchReplies(pts, pool) ==
  { [kind |-> "exception", result |-> <<>>], [kind |-> "status", result |-> <<>>] }
    \cup { [kind |-> "ok", result |-> r] :
             r \in SeqsUpTo({ h \in FromStore(pts)
                                       \cup (IF pool = "stored" THEN {} ELSE Candidates)
                                       \cup (IF pool = "any" THEN Foreign ELSE {}) :
                              RatGE(h.score, SIMILARITY_THRESHOLD) },
                            IF MaxResults < SEARCH_LIMIT THEN MaxResults ELSE SEARCH_LIMIT) }

\* min_success = min_success_rate or self.config.min_success_rate
MinSuccess(min_success_rate) ==
  IF min_success_rate = Null \/ RatIsZero(min_success_rate[1])
  THEN MIN_SUCCESS_RATE
  ELSE min_success_rate[1]

Qualifies(hit, min_success) ==
  /\ RatGE(Get(hit.payload, "success_rate", Rat(0, 1)), min_success)
  /\ Get(hit.payload, "sample_count", 0) >= MIN_SAMPLES

\* The index of the first hit the loop accepts, 0 for none.
FirstQualifying(results, min_success) ==
  LET ok == { i \in DOMAIN results : Qualifies(results[i], min_success) }
  IN IF ok = {} THEN 0 ELSE CHOOSE i \in ok : \A j \in ok : i <= j

SimilarRoute(hit) ==
  [ query_id |-> Get(hit.payload, "query_id", 0),
    similarity |-> hit.score,
    route_type |-> Get(hit.payload, "route_type", "similarity"),
    tool |-> Get(hit.payload, "tool", ""),
    execution_layer |-> Get(hit.payload, "execution_layer", ""),
    success_rate |-> Get(hit.payload, "success_rate", Rat(0, 1)),
    sample_count |-> Get(hit.payload, "sample_count", 0),
    avg_latency_ms |-> Get(hit.payload, "avg_latency_ms", Rat(0, 1)) ]

\* QdrantLearningClient.find_similar_route: Some(SimilarRoute) or Null.
\* embed is how the embedding call ended and reply what the search answered;
\* RouteType(...) raises on an unknown route type, inside the try.
find_similar_route(initialized, min_success_rate, embed, reply) ==
  IF ~initialized THEN Null
  ELSE IF embed = "raise" THEN Null
  ELSE IF reply.kind # "ok" THEN Null
  ELSE IF reply.result = <<>> THEN Null
  ELSE LET i == FirstQualifying(reply.result, MinSuccess(min_success_rate))
       IN IF i = 0 THEN Null
          ELSE IF Get(reply.result[i].payload, "route_type", "similarity") \notin RouteTypes
          THEN Null
          ELSE Some(SimilarRoute(reply.result[i]))

\* ----------------------------------------------------------- mode detection
\* QueryMode, in the order of escalation.
QueryMode == { "llm", "agent", "hybrid" }

Rank(mode) == CASE mode = "llm" -> 0 [] mode = "agent" -> 1 [] mode = "hybrid" -> 2

\* score_complexity: the level of a clamped score.
LevelOf(score) ==
  IF score <= 25 THEN "simple"
  ELSE IF score <= 50 THEN "moderate"
  ELSE IF score <= 75 THEN "complex"
  ELSE "expert"

\* The factors of a ComplexityScore that detect_mode looks up.
DetectedFactors == { "multi_step", "investigate", "troubleshoot" }

\* The ComplexityScore values detect_mode is given: scores at and next to
\* every threshold of the levels and of the recommended model.
ComplexityScores ==
  { [ score |-> score, level |-> LevelOf(score), factors |-> factors ] :
      score \in { 0, 25, 26, 30, 31, 50, 51, 60, 61, 75, 76, 100 },
      factors \in SUBSET DetectedFactors }

\* What the two pattern sets find in a query: any(re.search(p, query_lower)
\* for p in AGENT_PATTERNS), and the same for LLM_PATTERNS.
PatternMatches == [ is_agent_query : BOOLEAN, is_llm_query : BOOLEAN ]

\* previous_confidence, in hundredths, and previous_success.
PreviousConfidences == { Null, Some(0), Some(40), Some(49), Some(50), Some(90) }
PreviousSuccesses == { Null, Some(TRUE), Some(FALSE) }

Max(a, b) == IF a >= b THEN a ELSE b

\* detect_mode keeps mode, confidence (in hundredths) and escalation_reason
\* in a record while it runs.  The base mode decision:
BaseMode(found, complexity) ==
  IF found.is_agent_query /\ found.is_llm_query
  THEN [ mode |-> "hybrid", confidence |-> 75, escalation_reason |-> None ]
  ELSE IF found.is_agent_query
  THEN [ mode |-> "agent", confidence |-> 85, escalation_reason |-> None ]
  ELSE IF found.is_llm_query
  THEN [ mode |-> "llm", confidence |-> 85, escalation_reason |-> None ]
  ELSE IF complexity.level = "simple"
  THEN [ mode |-> "agent", confidence |-> 70, escalation_reason |-> None ]
  ELSE IF complexity.level \in { "complex", "expert" }
  THEN [ mode |-> "hybrid", confidence |-> 60, escalation_reason |-> None ]
  ELSE [ mode |-> "agent", confidence |-> 75, escalation_reason |-> None ]

\* The low-confidence adjustment as it would be with <= for <.
LowConfidence_inclusive(d, previous_confidence) ==
  IF previous_confidence # Null /\ previous_confidence[1] <= 50
  THEN [ mode |-> IF d.mode = "llm" THEN "agent"
                  ELSE IF d.mode = "agent" THEN "hybrid" ELSE d.mode,
         confidence |-> Max(30, d.confidence - 20),
         escalation_reason |-> "low_confidence" ]
  ELSE d

\* if previous_confidence is not None and previous_confidence < 0.5.
LowConfidence(d, previous_confidence) ==
  IF previous_confidence # Null /\ previous_confidence[1] < 50
  THEN [ mode |-> IF d.mode = "llm" THEN "agent"
                  ELSE IF d.mode = "agent" THEN "hybrid" ELSE d.mode,
         confidence |-> Max(30, d.confidence - 20),
         escalation_reason |-> "low_confidence" ]
  ELSE d

\* if previous_success is False.
PreviousFailure(d, previous_success) ==
  IF previous_success = Some(FALSE)
  THEN [ mode |-> IF d.mode = "agent" THEN "hybrid" ELSE d.mode,
         confidence |-> Max(30, d.confidence - 30),
         escalation_reason |-> "previous_failure" ]
  ELSE d

\* The expert adjustment as it would be if it restored a high confidence.
ExplicitComplexity_reset(d, complexity) ==
  IF complexity.level = "expert"
  THEN [ mode |-> "hybrid", confidence |-> 90,
         escalation_reason |-> "explicit_complexity" ]
  ELSE d

\* if complexity.level == ComplexityLevel.EXPERT.
ExplicitComplexity(d, complexity) ==
  IF complexity.level = "expert"
  THEN [ mode |-> "hybrid", confidence |-> Max(40, d.confidence - 10),
         escalation_reason |-> "explicit_complexity" ]
  ELSE d

\* Multi-step detection as it would be if it set the mode to agent
\* whatever it was.
MultiStep_forced(d, complexity) ==
  IF "multi_step" \in complexity.factors
  THEN [ mode |-> "agent", confidence |-> Max(50, d.confidence - 10),
         escalation_reason |-> "multi_step" ]
  ELSE d

\* Multi-step detection.
MultiStep(d, complexity) ==
  IF "multi_step" \in complexity.factors
  THEN [ mode |-> IF d.mode = "llm" THEN "agent" ELSE d.mode,
         confidence |-> Max(50, d.confidence - 10),
         escalation_reason |-> "multi_step" ]
  ELSE d

\* The investigation adjustment as it would be if it lowered the confidence
\* like the adjustments before it.
Investigation_lowering(d, complexity) ==
  IF "investigate" \in complexity.factors \/ "troubleshoot" \in complexity.factors
  THEN [ mode |-> "hybrid", confidence |-> Max(50, d.confidence - 10),
         escalation_reason |-> "investigation" ]
  ELSE d

\* Investigation queries need hybrid mode.
Investigation(d, complexity) ==
  IF "investigate" \in complexity.factors \/ "troubleshoot" \in complexity.factors
  THEN [ mode |-> "hybrid", confidence |-> 70, escalation_reason |-> "investigation" ]
  ELSE d

\* Recommend model based on complexity.
RecommendedModel(score) ==
  IF score <= 30 THEN "haiku" ELSE IF score <= 60 THEN "sonnet" ELSE "opus"

\* detect_mode, statement by statement: the record after the base decision
\* and after each of the five adjustments, in the order of the code.
DetectSteps(found, complexity, previous_confidence, previous_success) ==
  LET d0 == BaseMode(found, complexity)
      d1 == LowConfidence(d0, previous_confidence)
      d2 == PreviousFailure(d1, previous_success)
      d3 == ExplicitComplexity(d2, complexity)
      d4 == MultiStep(d3, complexity)
      d5 == Investigation(d4, complexity)
  IN << d0, d1, d2, d3, d4, d5 >>

\* detect_mode(query, complexity, previous_confidence, previous_success): the
\* ModeDecision returned.
detect_mode(found, complexity, previous_confidence, previous_success) ==
  LET d == DetectSteps(found, complexity, previous_confidence, previous_success)[6]
  IN [ mode |-> d.mode, complexity |-> complexity, confidence |-> d.confidence,
       escalation_reason |-> d.escalation_reason,
       recommended_model |-> RecommendedModel(complexity.score) ]

\* No detect_mode call yet.  found, complexity, previous_confidence and
\* previous_success are the arguments of the last call, steps the record
\* after each statement of it, decision what it returned.
NoDetect ==
  [ called |-> FALSE, found |-> Null, complexity |-> Null,
    previous_confidence |-> Null, previous_success |-> Null,
    steps |-> <<>>, decision |-> Null ]

\* ------------------------------------------------------ runtime escalation
\* The values of EscalationReason that should_escalate returns.
EscalationReasons == { "timeout", "error", "previous_failure" }

\* Error texts as should_escalate sees them; str.lower() of each.
ErrorTexts ==
  { "", "Read Timeout", "timeout after 30s", "TIMEOUT", "connection refused",
    "request timed out" }

LowerError(text) ==
  IF text = "Read Timeout" THEN "read timeout"
  ELSE IF text = "TIMEOUT" THEN "timeout"
  ELSE text

\* "timeout" in text, for the lowered texts above.
ContainsTimeout(text) == text \in { "read timeout", "timeout after 30s", "timeout" }

\* EscalationContext: the fields should_escalate reads.
Attempts == { 1, 2, 3 }
LastLatencies == { Null, Some(0), Some(30000), Some(30001), Some(60000), Some(60001) }
SuccessRates == { Null, Some(0), Some(49), Some(50), Some(100) }

EscalationContexts ==
  [ current_mode : QueryMode, attempt_count : Attempts,
    last_error : { Null } \cup { Some(t) : t \in ErrorTexts },
    last_latency_ms : LastLatencies, similar_query_success_rate : SuccessRates ]

\* What should_escalate returns: (should_escalate, new_mode, reason).
NoEscalation == << FALSE, None, None >>

\* if ctx.last_error: Python takes None and the empty string as false.
HasError(ctx) == ctx.last_error # Null /\ ctx.last_error[1] # ""

\* The error block as it would be if it raised whatever the mode.
ErrorTrigger_uncapped(ctx) ==
  LET reason == IF ContainsTimeout(LowerError(ctx.last_error[1])) THEN "timeout" ELSE "error"
  IN << TRUE, IF ctx.current_mode = "llm" THEN "agent" ELSE "hybrid", reason >>

\* The body of "if ctx.last_error:".
ErrorTrigger(ctx) ==
  LET reason == IF ContainsTimeout(LowerError(ctx.last_error[1])) THEN "timeout" ELSE "error"
  IN IF ctx.current_mode = "llm" THEN << TRUE, "agent", reason >>
     ELSE IF ctx.current_mode = "agent" THEN << TRUE, "hybrid", reason >>
     ELSE NoEscalation

\* if ctx.last_latency_ms: ... return True, HYBRID, TIMEOUT; whether the
\* block returns.
LatencyTrigger(ctx) ==
  /\ ctx.last_latency_ms # Null
  /\ ctx.last_latency_ms[1] # 0
  /\ ctx.last_latency_ms[1] > (IF ctx.current_mode = "agent" THEN 30000 ELSE 60000)
  /\ ctx.current_mode = "agent"

\* The success-rate block as it would be if it raised whatever the mode.
RateTrigger_uncapped(ctx) ==
  IF ctx.similar_query_success_rate # Null /\ ctx.similar_query_success_rate[1] < 50
  THEN << TRUE, IF ctx.current_mode = "llm" THEN "agent" ELSE "hybrid",
          "previous_failure" >>
  ELSE NoEscalation

\* The block on similar_query_success_rate and the final return.
RateTrigger(ctx) ==
  IF ctx.similar_query_success_rate # Null /\ ctx.similar_query_success_rate[1] < 50
  THEN IF ctx.current_mode = "llm" THEN << TRUE, "agent", "previous_failure" >>
       ELSE IF ctx.current_mode = "agent" THEN << TRUE, "hybrid", "previous_failure" >>
       ELSE NoEscalation
  ELSE NoEscalation

\* should_escalate as it would be with the latency and success-rate checks
\* ahead of the error check.
should_escalate_error_last(ctx) ==
  IF ctx.current_mode = "hybrid" /\ ctx.attempt_count > 2 THEN NoEscalation
  ELSE IF LatencyTrigger(ctx) THEN << TRUE, "hybrid", "timeout" >>
  ELSE IF RateTrigger(ctx) # NoEscalation THEN RateTrigger(ctx)
  ELSE IF HasError(ctx) THEN ErrorTrigger(ctx)
  ELSE NoEscalation

\* should_escalate(ctx).
should_escalate(ctx) ==
  IF ctx.current_mode = "hybrid" /\ ctx.attempt_count > 2 THEN NoEscalation
  ELSE IF HasError(ctx) THEN ErrorTrigger(ctx)
  ELSE IF LatencyTrigger(ctx) THEN << TRUE, "hybrid", "timeout" >>
  ELSE RateTrigger(ctx)

\* A retry loop around should_escalate: the mode the next attempt runs in,
\* and every attempt so far with the mode it ran in, whether it ended in an
\* error, and the answer of should_escalate.  The loop adopts new_mode whenever the answer is true.
NoRetry == [ mode |-> None, attempts |-> <<>> ]

RetryContexts(r) ==
  { ctx \in [ current_mode : { r.mode }, attempt_count : { Len(r.attempts) + 1 },
              last_error : { Null, Some("connection refused"), Some("TIMEOUT") },
              last_latency_ms : { Null, Some(30001), Some(60001) },
              similar_query_success_rate : { Null, Some(49), Some(100) } ] :
      TRUE }

Attempt(r, ctx) ==
  LET ret == should_escalate(ctx)
  IN [ mode |-> IF ret[1] THEN ret[2] ELSE r.mode,
       attempts |-> Append(r.attempts, [ mode |-> ctx.current_mode,
                                         failed |-> HasError(ctx),
                                         ret |-> ret ]) ]

\* The escalations a retry loop has performed.
Escalations(r) == Cardinality({ i \in DOMAIN r.attempts : r.attempts[i].ret[1] })

\* No should_escalate call yet.
NoEscalate == [ called |-> FALSE, ctx |-> Null, ret |-> Null ]

\* ------------------------------------------------------ complexity scoring
\* COMPLEXITY_PATTERNS: the weight of each indicator.
COMPLEXITY_PATTERNS ==
  [ investigate |-> 20, analyze |-> 18, troubleshoot |-> 22, explain_why |-> 15,
    multi_step |-> 18, compare |-> 15, what_is |-> 8, how_to |-> 10,
    configure |-> 12, multiple_items |-> 10, conditional |-> 12,
    list_show |-> -5, simple_action |-> -8, status_check |-> -5 ]

LENGTH_SCORES ==
  << << 20, -10 >>, << 50, -5 >>, << 100, 0 >>, << 200, 5 >>, << 500, 15 >>,
     << 1000, 25 >> >>

\* The for/else over LENGTH_SCORES.
LengthAdjustment(length) ==
  LET hits == { i \in DOMAIN LENGTH_SCORES : length <= LENGTH_SCORES[i][1] }
  IN IF hits = {} THEN 30
     ELSE LENGTH_SCORES[CHOOSE i \in hits : \A j \in hits : i <= j][2]

RECURSIVE SumOf(_)
\* The sum of the values of a function with a finite domain.
SumOf(factors) ==
  IF DOMAIN factors = {} THEN 0
  ELSE LET name == CHOOSE n \in DOMAIN factors : TRUE
       IN factors[name] + SumOf([n \in DOMAIN factors \ { name } |-> factors[n]])

\* What score_complexity reads of the query: the indicators its text
\* matches, len(query), query.count("?") and the entities found in it.
QueryFeatures ==
  [ matches : SUBSET { "investigate", "troubleshoot", "multi_step", "list_show",
                       "simple_action", "status_check" },
    length : { 10, 50, 150, 1001 },
    question_count : { 0, 1, 3 },
    entity_count : { 0, 2, 3 } ]

\* The context argument: None, or a dict whose str() has the given length
\* (0 stands for the empty dict).
Contexts == { Null, Some(0), Some(500), Some(501), Some(2001) }

\* The sum the context adds: 10 over 500 characters, 10 more over 2000.
ContextScore(context) ==
  IF context = Null \/ context[1] = 0 THEN 0
  ELSE (IF context[1] > 500 THEN 10 ELSE 0) + (IF context[1] > 2000 THEN 10 ELSE 0)

\* The factors as they would be if only the entities beyond the second
\* counted.
Factors_excess(text, context) ==
  LET names == text.matches \cup { "length" }
               \cup (IF text.question_count > 1 THEN { "questions" } ELSE {})
               \cup (IF ContextScore(context) > 0 THEN { "context" } ELSE {})
               \cup (IF text.entity_count > 2 THEN { "entities" } ELSE {})
  IN [ n \in names |->
         IF n = "length" THEN LengthAdjustment(text.length)
         ELSE IF n = "questions" THEN (text.question_count - 1) * 8
         ELSE IF n = "context" THEN ContextScore(context)
         ELSE IF n = "entities" THEN (text.entity_count - 2) * 3
         ELSE COMPLEXITY_PATTERNS[n] ]

\* The factors dict of score_complexity.
Factors(text, context) ==
  LET names == text.matches \cup { "length" }
               \cup (IF text.question_count > 1 THEN { "questions" } ELSE {})
               \cup (IF ContextScore(context) > 0 THEN { "context" } ELSE {})
               \cup (IF text.entity_count > 2 THEN { "entities" } ELSE {})
  IN [ n \in names |->
         IF n = "length" THEN LengthAdjustment(text.length)
         ELSE IF n = "questions" THEN (text.question_count - 1) * 8
         ELSE IF n = "context" THEN ContextScore(context)
         ELSE IF n = "entities" THEN text.entity_count * 3
         ELSE COMPLEXITY_PATTERNS[n] ]

\* The clamp as it would be without the upper limit.
Clamp_open(score) == Max(0, score)

\* score = max(0, min(100, score)).
Clamp(score) == Max(0, IF score < 100 THEN score ELSE 100)

\* score_complexity(query, context): the ComplexityScore returned, without
\* its reasoning text.
score_complexity(text, context) ==
  LET factors == Factors(text, context)
      score == Clamp(50 + SumOf(factors))
  IN [ score |-> score, level |-> LevelOf(score), factors |-> factors ]

\* The alternatives of each pattern of COMPLEXITY_PATTERNS, as sequences of
\* whole words (the patterns are enclosed in \b ... \b).
PatternWords ==
  [ investigate |-> { <<"investigate">>, <<"figure", "out">>, <<"find", "out", "why">> },
    analyze |-> { <<"analyze">>, <<"examine">>, <<"assess">>, <<"evaluate">> },
    troubleshoot |-> { <<"troubleshoot">>, <<"debug">>, <<"diagnose">>, <<"fix">> },
    explain_why |-> { <<"explain", "why">>, <<"why", "is">>, <<"why", "are">>,
                      <<"why", "does">>, <<"why", "do">>, <<"why", "did">>,
                      <<"why", "was">> },
    multi_step |-> { <<"step", "by", "step">> },
    compare |-> { <<"compare">>, <<"difference", "between">>, <<"versus">>, <<"vs">> },
    what_is |-> { <<"what", "is">>, <<"what", "are">>, <<"what", "was">>,
                  <<"what", "were">> },
    how_to |-> { <<"how", "to">>, <<"how", "do">>, <<"how", "can">>, <<"how", "should">> },
    configure |-> { <<"configure">>, <<"setup">>, <<"set", "up">>, <<"enable">>,
                    <<"disable">> },
    multiple_items |-> { <<"all">>, <<"every">>, <<"each">>, <<"multiple">>,
                         <<"several">> },
    conditional |-> { <<"if">>, <<"when">>, <<"unless">>, <<"only", "when">> },
    list_show |-> { <<"list">>, <<"show">>, <<"get">>, <<"display">> },
    simple_action |-> { <<"restart">>, <<"reboot">>, <<"block">>, <<"unblock">> },
    status_check |-> { <<"status">>, <<"health">>, <<"check", "if">> } ]

\* The words kw stand in text from position i on.
WordsAt(kw, text, i) ==
  /\ i + Len(kw) - 1 <= Len(text)
  /\ \A k \in DOMAIN kw : text[i + k - 1] = kw[k]

\* re.search(pattern, query_lower) for the pattern called name; the two
\* alternatives of multi_step with ".*" need both words on one line.
PatternFound(name, text) ==
  \/ \E kw \in PatternWords[name] : \E i \in DOMAIN text : WordsAt(kw, text, i)
  \/ /\ name = "multi_step"
     /\ \E i \in DOMAIN text : \E j \in DOMAIN text :
          /\ i < j
          /\ << text[i], text[j] >> \in { << "first", "then" >>, << "after", "do" >> }
          /\ \A k \in DOMAIN text : (i < k /\ k < j) => text[k] # NL

\* len(word) for the words of the model's queries.
WordLen(w) ==
  CASE w \in { "is" } -> 2
    [] w \in { "all", "get", "Why", "out" } -> 3
    [] w \in { "LIST", "show", "logs", "wifi", "slow", "vlan" } -> 4
    [] w \in { "hello" } -> 5
    [] w \in { "figure" } -> 6
    [] w \in { "Devices", "devices", "unblock", "clients", "compare" } -> 7
    [] w \in { "networks" } -> 8
    [] w \in { "troubleshoot" } -> 12
    [] OTHER -> 1

RECURSIVE CharLen(_)
\* len(query): the words and one separator between two of them.
CharLen(query) ==
  IF query = <<>> THEN 0
  ELSE IF Len(query) = 1 THEN WordLen(query[1])
  ELSE WordLen(query[1]) + 1 + CharLen(Tail(query))

\* What score_complexity reads of a query of the model: none of them has a
\* question mark, a MAC or IP address, a numbered VLAN or a device name.
TextOf(query) ==
  [ matches |-> { name \in DOMAIN PatternWords : PatternFound(name, LowerQuery(query)) },
    length |-> CharLen(query),
    question_count |-> 0,
    entity_count |-> 0 ]

\* No score_complexity call yet.  calls counts the calls made with the same
\* arguments, result is what the first returned, again what the second did.
NoScore ==
  [ calls |-> 0, text |-> Null, context |-> Null, result |-> Null, again |-> Null ]

\* ------------------------------------------------------ task-stream consumer
\* CortexClient._consume_loop.  The consumer record holds the task stream (the
\* messages not yet delivered to the group), the message in hand, what Redis
\* has recorded (results published, messages acknowledged), self._status, and
\* the await the loop is suspended on.  The record starts after start() has
\* finished: the handler is set, the loop awaits xreadgroup, status is ready.
TaskStream == << "t1", "t2" >>

NoConsumer ==
  [ at |-> "xreadgroup", status |-> "ready", stream |-> TaskStream,
    message |-> None, handled |-> {}, published |-> {}, acked |-> {},
    raised |-> {}, task_count |-> 0, cancelled |-> FALSE, taken |-> <<>> ]

\* What an awaited call of the loop body can end with: its value, an
\* exception, or the CancelledError that stop() throws into the task.
AwaitReplies == { "ok", "raise", "cancel" }

\* The finally clause has run update_status(READY).  An exception of that
\* call leaves _consume_loop, and so does a pending CancelledError.
ReadyAnswer(c, reply) ==
  IF reply = "ok"
  THEN [c EXCEPT !.status = "ready", !.message = None,
                 !.at = IF c.cancelled THEN "stopped" ELSE "xreadgroup"]
  ELSE [c EXCEPT !.at = IF reply = "cancel" \/ c.cancelled THEN "stopped"
                        ELSE "crashed"]

\* An await of the try block did not return: except Exception logs the
\* error (CancelledError passes it by), and the finally clause is entered.
Interrupted(c, step, reply) ==
  [c EXCEPT !.raised = IF reply = "raise" THEN @ \cup { << c.message, step >> }
                       ELSE @,
            !.cancelled = (reply = "cancel"),
            !.at = "update_status_ready"]

\* increment_task_count answered.
CountAnswer(c, reply) ==
  IF reply = "ok"
  THEN [c EXCEPT !.task_count = @ + 1, !.at = "update_status_ready"]
  ELSE Interrupted(c, "increment_task_count", reply)

\* ack_message answered: XACK of the message in hand.
AckAnswer(c, reply) ==
  IF reply = "ok"
  THEN [c EXCEPT !.acked = @ \cup { c.message },
                 !.at = "increment_task_count"]
  ELSE Interrupted(c, "ack_message", reply)

\* publish_result as it would be if its exception were swallowed: the loop
\* goes on to acknowledge the message.
PublishAnswer_swallowed(c, reply) ==
  IF reply = "raise"
  THEN [c EXCEPT !.raised = @ \cup { << c.message, "publish_result" >> },
                 !.at = "ack_message"]
  ELSE IF reply = "ok"
  THEN [c EXCEPT !.published = @ \cup { c.message }, !.at = "ack_message"]
  ELSE Interrupted(c, "publish_result", reply)

\* publish_result answered: XADD to the result stream.
PublishAnswer(c, reply) ==
  IF reply = "ok"
  THEN [c EXCEPT !.published = @ \cup { c.message }, !.at = "ack_message"]
  ELSE Interrupted(c, "publish_result", reply)

\* The task handler answered.
HandlerAnswer(c, reply) ==
  IF reply = "ok"
  THEN [c EXCEPT !.handled = @ \cup { c.message }, !.at = "publish_result"]
  ELSE Interrupted(c, "task_handler", reply)

\* update_status(BUSY) answered; self._status is assigned after the last
\* Redis command of update_status, so an exception leaves it as it was.
BusyAnswer(c, reply) ==
  IF reply = "ok"
  THEN [c EXCEPT !.status = "busy", !.at = "task_handler"]
  ELSE Interrupted(c, "update_status_busy", reply)

\* consume_tasks yields the next message of the stream (XREADGROUP with ">"
\* delivers each message once), and the loop body awaits update_status(BUSY).
\* A cancellation while reading ends the generator, and the loop with it.
consume_tasks(c, reply) ==
  IF reply = "cancel" THEN [c EXCEPT !.at = "stopped"]
  ELSE IF reply = "raise" \/ c.stream = <<>> THEN c
  ELSE [c EXCEPT !.message = Head(c.stream), !.stream = Tail(c.stream),
                 !.taken = Append(@, [ message |-> Head(c.stream),
                                       status |-> c.status ]),
                 !.at = "update_status_busy"]

\* The reply to the await the loop is suspended on, up to its next await.
_consume_loop(c, reply) ==
  CASE c.at = "xreadgroup" -> consume_tasks(c, reply)
    [] c.at = "update_status_busy" -> BusyAnswer(c, reply)
    [] c.at = "task_handler" -> HandlerAnswer(c, reply)
    [] c.at = "publish_result" -> PublishAnswer(c, reply)
    [] c.at = "ack_message" -> AckAnswer(c, reply)
    [] c.at = "increment_task_count" -> CountAnswer(c, reply)
    [] c.at = "update_status_ready" -> ReadyAnswer(c, reply)
    [] OTHER -> c

\* ------------------------------------------------------------------ state
\* The coroutines of the model.
Procs == { "q1", "q2" }

VARIABLES
  learning,   \* "enabled": qdrant_learning is an initialized client; "absent": None
  states,     \* LayerManager.states
  metrics,    \* COLD_STARTS_TOTAL, PENDING_REQUESTS, COLD_START_DURATION per layer
  points,     \* the routing_queries collection: point id -> payload
  outcomes,   \* the routing_outcomes collection: a set of outcome records
  nextId,     \* the source of uuid4 values
  nCalls,     \* direct LayerManager calls made so far
  nProbes,    \* health probes answered so far
  endpoint,   \* per layer: what its health endpoint answers from now on
  checked,    \* the last check_health that completed: its layer and answer
  det,        \* the last detect_mode call: its arguments and what it returned
  esc,        \* the last should_escalate call: its context and what it returned
  scored,     \* the score_complexity calls made on one (query, context)
  consumer,   \* CortexClient: the task stream and the position of _consume_loop
  retry,      \* a caller's retry loop around should_escalate
  pc,         \* per coroutine: the call it is suspended on
  loc,        \* per coroutine: the locals of process_query_internal
  frame,      \* per coroutine: the locals of its ensure_ready / wait_for_ready call
  resp,       \* per coroutine: the QueryResponse returned, Null before
  log         \* per coroutine: the calls and returns of the current query, in order

vars ==
  << learning, states, metrics, points, outcomes, nextId, nCalls, nProbes,
     endpoint, checked, det, esc, scored, consumer, retry, pc, loc, frame,
     resp, log >>

\* The state as one record, for the code sections below.
Cur ==
  [ learning |-> learning, states |-> states, metrics |-> metrics,
    points |-> points, outcomes |-> outcomes, nextId |-> nextId,
    nCalls |-> nCalls, nProbes |-> nProbes, endpoint |-> endpoint,
    checked |-> checked, det |-> det, esc |-> esc, scored |-> scored,
    consumer |-> consumer, retry |-> retry, pc |-> pc, loc |-> loc,
    frame |-> frame, resp |-> resp, log |-> log ]

Apply(T) ==
  /\ learning' = T.learning
  /\ states' = T.states
  /\ metrics' = T.metrics
  /\ points' = T.points
  /\ outcomes' = T.outcomes
  /\ nextId' = T.nextId
  /\ nCalls' = T.nCalls
  /\ nProbes' = T.nProbes
  /\ endpoint' = T.endpoint
  /\ checked' = T.checked
  /\ det' = T.det
  /\ esc' = T.esc
  /\ scored' = T.scored
  /\ consumer' = T.consumer
  /\ retry' = T.retry
  /\ pc' = T.pc
  /\ loc' = T.loc
  /\ frame' = T.frame
  /\ resp' = T.resp
  /\ log' = T.log

\* The locals of process_query_internal at entry.  exec_layer and
\* tool_selected are None; outcome and response hold what the pending
\* _store_outcome call stores and what is returned after it.  The rest
\* records the query for the properties: exec_reply is what the layer
\* answered, faults the learning calls of this query that failed.  A direct
\* call of find_similar_route keeps its arguments and the search answer in
\* initialized, min_success_rate and search_reply; a direct call of
\* store_routing, store_outcome or record_feedback keeps what it returned in
\* ret, record_feedback its argument in feedback and the payload of the
\* decision point at the call in before.
NoQuery ==
  [ query |-> <<>>, query_id |-> 0, rule |-> 0, similar |-> Null,
    route_type |-> None, route_confidence |-> ZeroConfidence,
    tool_selected |-> None, exec_layer |-> None,
    cold_starts |-> <<>>, layers_activated |-> <<>>,
    outcome |-> Null, patch |-> Null, response |-> Null,
    exec_reply |-> Null, faults |-> {},
    direct |-> FALSE, initialized |-> TRUE, min_success_rate |-> Null,
    search_reply |-> Null, pool |-> "cascade", ret |-> None, feedback |-> None,
    before |-> Null ]

Fault(S, p, call) == [S EXCEPT !.loc[p].faults = @ \cup { call }]

\* No ensure_ready call yet.  caller is who awaits the call: the cascade or
\* a direct caller.  elapsed is time.time() - start while the wait loop
\* runs.  The rest records the call for the properties: tracked is
\* states[layer] at the call; probed and polled tell whether the call issued
\* its first health check and a check inside the wait loop; saw200 whether
\* one of them was answered 200, first200 whether the first one was, and
\* layer200 whether the layer answered 200 to anyone since the call began;
\* waited is elapsed when the loop gave up; counted and observed are the
\* layer's cold-start counter and the number of durations in its histogram
\* at the call.
NoFrame ==
  [ caller |-> None, layer |-> None, phase |-> "none", timeout |-> 0,
    elapsed |-> 0, waited |-> 0, tracked |-> None, probed |-> FALSE,
    polled |-> FALSE, saw200 |-> FALSE, first200 |-> FALSE,
    layer200 |-> FALSE, counted |-> 0, observed |-> 0, ret |-> None ]

Logged(S, p, event) == [S EXCEPT !.log[p] = Append(@, event)]

\* Replies of an HTTP call: a transport error or undecodable body (raises),
\* or a status code.
Raised(text) == [kind |-> "exception", code |-> 0, text |-> text]
Status(code) == [kind |-> "status", code |-> code, text |-> ""]

HealthReplies == { Status(200), Status(503), Raised("connect") }

\* What the health endpoint of a layer answers: anything while it is flaky,
\* 200 to every check once it is stable.
HealthRepliesOf(S, layer) ==
  IF S.endpoint[layer] = "flaky" THEN HealthReplies ELSE { Status(200) }

\* No check_health has completed.
NoCheck == [ n |-> 0, layer |-> None, ok |-> FALSE, prior |-> None ]
StoreReplies == { Status(200), Status(500), Raised("timeout") }
ExecReplies == { Status(200), Status(500), Raised("boom"), Raised("") }
EmbedOutcomes == { "ok", "raise" }
Latencies == { 100, 300 }

\* What a section needs from the environment: how the embedding calls of
\* find_similar_route and of the decision store end, and int((time.time() -
\* start) * 1000).
Choices ==
  [ embed1 : EmbedOutcomes, embed2 : EmbedOutcomes, latency_ms : Latencies ]

\* The choices of a section that embeds once, and of one that does not embed.
LaterChoices == { ch \in Choices : ch.embed1 = "ok" }
TimeChoices == { ch \in LaterChoices : ch.embed2 = "ok" }

QueryResponse(success, result, error, layers, latency, cold, qid, rtype, conf) ==
  [ success |-> success, result |-> result, error |-> error,
    layers_activated |-> layers, latency_ms |-> latency, cold_starts |-> cold,
    query_id |-> qid, route_type |-> rtype, route_confidence |-> conf ]

\* ------------------------------------------------- cascade, last code first
\* return QueryResponse(...)
Return(S, p) ==
  [Logged(S, p, "respond") EXCEPT !.resp[p] = S.loc[p].response, !.pc[p] = "done"]

\* store_outcome as it would be if the PUT were left running as a task: the
\* response is returned while the store has not answered.
PutOutcome_detached(S, p) == Return(S, p)

\* store_outcome, after _update_routing_stats: the PUT of the outcome record.
PutOutcome(S, p) == [S EXCEPT !.pc[p] = "outcome_put"]

\* The statistics as they would be if the sums were divided by the count
\* before the outcome.
NewStats_stale_count(payload, outcome) ==
  LET old_count == Get(payload, "sample_count", 0)
      old_rate == Get(payload, "success_rate", Rat(0, 1))
      old_avg == Get(payload, "avg_latency_ms", Rat(0, 1))
  IN [ success |-> outcome.success,
       success_rate |->
         Rat(old_rate[1] * old_count + (IF outcome.success THEN 1 ELSE 0) * old_rate[2],
             old_rate[2] * old_count),
       sample_count |-> old_count + 1,
       avg_latency_ms |->
         Rat(old_avg[1] * old_count + outcome.latency_ms * old_avg[2],
             old_avg[2] * old_count) ]

\* _update_routing_stats: the statistics written back for an outcome.
NewStats(payload, outcome) ==
  LET old_count == Get(payload, "sample_count", 0)
      old_rate == Get(payload, "success_rate", Rat(0, 1))
      old_avg == Get(payload, "avg_latency_ms", Rat(0, 1))
      new_count == old_count + 1
  IN [ success |-> outcome.success,
       success_rate |->
         Rat(old_rate[1] * old_count + (IF outcome.success THEN 1 ELSE 0) * old_rate[2],
             old_rate[2] * new_count),
       sample_count |-> new_count,
       avg_latency_ms |->
         Rat(old_avg[1] * old_count + outcome.latency_ms * old_avg[2],
             old_avg[2] * new_count) ]

\* _store_outcome(query_id, success, latency_ms, error_type), up to the GET of
\* _update_routing_stats.
StoreOutcome(S, p, success, latency_ms, error_type) ==
  LET S1 == Logged(S, p, "_store_outcome")
  IN IF S.learning # "enabled" THEN Return(S1, p)
     ELSE [Logged(S1, p, "store_outcome_call") EXCEPT
             !.nextId = @ + 1,
             !.loc[p].outcome =
               Some([ outcome_id |-> S.nextId, query_id |-> S.loc[p].query_id,
                      success |-> success, latency_ms |-> latency_ms,
                      error_type |-> error_type, user_feedback |-> None ]),
             !.pc[p] = "stats_get"]

LayerFailed(layer) == <<"Layer failed to become ready", layer>>

\* The code after ensure_ready returned False, as it would be if it left the
\* error class out of the outcome.
LayerUnavailable_untyped(S, p, ch) ==
  LET l == S.loc[p]
      r == QueryResponse(FALSE, Null, LayerFailed(l.exec_layer), <<>>, ch.latency_ms,
                         <<>>, l.query_id, l.route_type, l.route_confidence)
  IN StoreOutcome([S EXCEPT !.loc[p].response = Some(r)], p, FALSE, ch.latency_ms, None)

\* The code after ensure_ready returned False.
LayerUnavailable(S, p, ch) ==
  LET l == S.loc[p]
      r == QueryResponse(FALSE, Null, LayerFailed(l.exec_layer), <<>>, ch.latency_ms,
                         <<>>, l.query_id, l.route_type, l.route_confidence)
  IN StoreOutcome([S EXCEPT !.loc[p].response = Some(r)], p, FALSE, ch.latency_ms,
                  "layer_unavailable")

\* The code after ensure_ready returned True as it would be if every layer
\* it dispatches to were listed as a cold start.
Dispatch_listed(S, p) ==
  LET layer == S.loc[p].exec_layer
  IN [Logged(S, p, "exec_call") EXCEPT
        !.loc[p].cold_starts = <<layer>>,
        !.loc[p].layers_activated = <<layer>>,
        !.pc[p] = "execute"]

\* The code after ensure_ready returned True, up to the POST to the layer.
Dispatch(S, p) ==
  LET layer == S.loc[p].exec_layer
      cold == IF S.states[layer] = "warming" THEN <<layer>> ELSE <<>>
  IN [Logged(S, p, "exec_call") EXCEPT
        !.loc[p].cold_starts = cold,
        !.loc[p].layers_activated = <<layer>>,
        !.pc[p] = "execute"]

\* The return of ensure_ready as it would be with one retry: after the first
\* False the cascade calls ensure_ready on the layer again.
AfterEnsure_retry(S, p, ch) ==
  LET S1 == Logged(S, p, "ensure_ready_ret")
      first == \A i \in DOMAIN S.log[p] : S.log[p][i] # "ensure_ready_ret"
  IN IF S.frame[p].caller # "cascade" THEN [S1 EXCEPT !.pc[p] = "returned"]
     ELSE IF S.frame[p].ret = "true" THEN Dispatch(S1, p)
     ELSE IF first
     THEN [Logged(S1, p, "ensure_ready_call") EXCEPT
             !.frame[p].phase = "first", !.frame[p].elapsed = 0,
             !.frame[p].ret = None, !.pc[p] = "check_health"]
     ELSE LayerUnavailable(S1, p, ch)

\* ensure_ready has returned frame.ret, to the cascade or to a direct caller.
AfterEnsure(S, p, ch) ==
  LET S1 == Logged(S, p, "ensure_ready_ret")
  IN IF S.frame[p].caller # "cascade" THEN [S1 EXCEPT !.pc[p] = "returned"]
     ELSE IF S.frame[p].ret = "true" THEN Dispatch(S1, p)
     ELSE LayerUnavailable(S1, p, ch)

\* check_health up to its GET; an unconfigured layer is UNHEALTHY at once.
IssueCheck(S, p) == [S EXCEPT !.pc[p] = "check_health"]

\* ensure_ready as it would be if it trusted the tracked state: a layer
\* tracked as warm is ready without a health check.
ensure_ready_tracked(S, p, caller, layer, ch) ==
  LET S1 == [Logged(S, p, "ensure_ready_call") EXCEPT
               !.frame[p] = [NoFrame EXCEPT
                  !.caller = caller,
                  !.layer = layer,
                  !.tracked = IF layer \in LAYERS THEN S.states[layer] ELSE "unhealthy",
                  !.counted = IF layer \in LAYERS
                              THEN S.metrics.cold_starts_total[layer] ELSE 0,
                  !.observed = IF layer \in LAYERS
                               THEN S.metrics.durations[layer] ELSE 0]]
  IN IF layer \notin LAYERS
     THEN AfterEnsure([S1 EXCEPT !.frame[p].ret = "false"], p, ch)
     ELSE IF S.states[layer] = "warm"
     THEN AfterEnsure([S1 EXCEPT !.frame[p].ret = "true"], p, ch)
     ELSE IssueCheck([S1 EXCEPT !.frame[p].phase = "first", !.frame[p].probed = TRUE], p)

\* ensure_ready(layer) up to the GET of its first check_health.
ensure_ready(S, p, caller, layer, ch) ==
  LET S1 == [Logged(S, p, "ensure_ready_call") EXCEPT
               !.frame[p] = [NoFrame EXCEPT
                  !.caller = caller,
                  !.layer = layer,
                  !.tracked = IF layer \in LAYERS THEN S.states[layer] ELSE "unhealthy",
                  !.counted = IF layer \in LAYERS
                              THEN S.metrics.cold_starts_total[layer] ELSE 0,
                  !.observed = IF layer \in LAYERS
                               THEN S.metrics.durations[layer] ELSE 0]]
  IN IF layer \notin LAYERS
     THEN AfterEnsure([S1 EXCEPT !.frame[p].ret = "false"], p, ch)
     ELSE IssueCheck([S1 EXCEPT !.frame[p].phase = "first", !.frame[p].probed = TRUE], p)

\* The decision store as it would be if it came after the wake-up: the PUT
\* of store_routing is issued once ensure_ready has been entered.
StoreDecision_late(S, p, ch) ==
  IF S.learning = "enabled" /\ S.loc[p].route_type # None /\ ch.embed2 = "ok"
  THEN Logged(Logged(ensure_ready(S, p, "cascade", S.loc[p].exec_layer, ch), p,
                     "store_decision_call"), p, "store_decision_ret")
  ELSE ensure_ready(S, p, "cascade", S.loc[p].exec_layer, ch)

\* The decision store of process_query_internal, up to the PUT of store_routing.
StoreDecision(S, p, ch) ==
  IF S.learning = "enabled" /\ S.loc[p].route_type # None
  THEN IF ch.embed2 = "ok"
       THEN [Logged(S, p, "store_decision_call") EXCEPT !.pc[p] = "store_routing"]
       ELSE ensure_ready(Fault(S, p, "embed"), p, "cascade", S.loc[p].exec_layer, ch)
  ELSE ensure_ready(S, p, "cascade", S.loc[p].exec_layer, ch)

\* Tier 3/4 as it would be without its guard: the reasoning tiers override
\* the route of the earlier tiers.
Tier34_unguarded(S, p) ==
  IF needs_reasoning(S.loc[p].query)
  THEN [S EXCEPT !.loc[p].exec_layer = "reasoning-slm", !.loc[p].route_type = "slm"]
  ELSE [S EXCEPT !.loc[p].exec_layer = "reasoning-classifier",
                 !.loc[p].route_type = "classifier"]

\* Tier 3/4: if not exec_layer.
Tier34(S, p) ==
  IF S.loc[p].exec_layer \in { None, "" }
  THEN IF needs_reasoning(S.loc[p].query)
       THEN [S EXCEPT !.loc[p].exec_layer = "reasoning-slm", !.loc[p].route_type = "slm"]
       ELSE [S EXCEPT !.loc[p].exec_layer = "reasoning-classifier",
                      !.loc[p].route_type = "classifier"]
  ELSE S

\* Tier 2, after find_similar_route returned similar.
Tier2(S, p, similar) ==
  IF similar # Null
  THEN [S EXCEPT !.loc[p].similar = similar,
                 !.loc[p].route_type = "similarity",
                 !.loc[p].route_confidence = RatMul(similar[1].similarity, similar[1].success_rate),
                 !.loc[p].tool_selected = similar[1].tool,
                 !.loc[p].exec_layer = similar[1].execution_layer]
  ELSE S

\* Tier 1: the rule classify found.
Tier1(S, p, rule) ==
  [S EXCEPT !.loc[p].rule = rule,
            !.loc[p].route_type = "keyword",
            !.loc[p].route_confidence = KEYWORD_CONFIDENCE,
            !.loc[p].tool_selected = ROUTING_RULES[rule].tool,
            !.loc[p].exec_layer = ExecutionLayerOf(ROUTING_RULES[rule].execution)]

\* The cascade from Tier 3/4 on.
AfterTier2(S, p, ch) == StoreDecision(Logged(Tier34(S, p), p, "tier_selected"), p, ch)

\* process_query_internal from its entry to its first await.
process_query_internal(S, p, query, ch) ==
  LET S0 == [Logged([S EXCEPT !.log[p] = <<>>], p, "query") EXCEPT
               !.nextId = @ + 1,
               !.loc[p] = [NoQuery EXCEPT !.query = query, !.query_id = S.nextId],
               !.frame[p] = NoFrame,
               !.resp[p] = Null]
      rule == classify(query)
  IN IF rule # 0 THEN AfterTier2(Tier1(S0, p, rule), p, ch)
     ELSE IF S.learning = "enabled"
     THEN IF ch.embed1 = "ok"
          THEN [Logged(S0, p, "find_similar_call") EXCEPT !.pc[p] = "search"]
          ELSE AfterTier2(Tier2(Fault(S0, p, "embed"), p,
                                find_similar_route(TRUE, Null, ch.embed1, Raised(""))), p, ch)
     ELSE AfterTier2(S0, p, ch)

\* ------------------------------------------------------------ LayerManager
\* check_health after its GET was answered: 200 is WARM, anything else COLD.
IsWarm(reply) == reply.kind = "status" /\ reply.code = 200

\* check_health as it would be if a layer once seen warm were kept warm.
check_health_sticky(S, layer, reply) ==
  [S EXCEPT !.states[layer] = IF IsWarm(reply) \/ @ = "warm" THEN "warm" ELSE "cold",
            !.endpoint[layer] = IF @ = "flaky" THEN "flaky" ELSE "settled",
            !.checked = [ n |-> 1 - S.checked.n, layer |-> layer,
                          ok |-> IsWarm(reply), prior |-> S.states[layer] ],
            !.frame = [q \in Procs |->
               IF S.frame[q].layer = layer /\ IsWarm(reply)
               THEN [S.frame[q] EXCEPT !.layer200 = TRUE] ELSE S.frame[q]]]

\* check_health as it would be if it left alone a layer that a
\* wait_for_ready has marked as warming.
check_health_yielding(S, layer, reply) ==
  [S EXCEPT !.states[layer] = IF @ = "warming" THEN @
                              ELSE IF IsWarm(reply) THEN "warm" ELSE "cold",
            !.endpoint[layer] = IF @ = "flaky" THEN "flaky" ELSE "settled",
            !.checked = [ n |-> 1 - S.checked.n, layer |-> layer,
                          ok |-> IsWarm(reply), prior |-> S.states[layer] ],
            !.frame = [q \in Procs |->
               IF S.frame[q].layer = layer /\ IsWarm(reply)
               THEN [S.frame[q] EXCEPT !.layer200 = TRUE] ELSE S.frame[q]]]

\* check_health of a configured layer, after its GET was answered.  endpoint
\* and checked record the check: a layer whose endpoint is stable has been
\* checked since ("settled"); checked holds the layer, whether the answer was
\* 200 and states[layer] before, and n tells one check from the next.
check_health(S, layer, reply) ==
  [S EXCEPT !.states[layer] = IF IsWarm(reply) THEN "warm" ELSE "cold",
            !.endpoint[layer] = IF @ = "flaky" THEN "flaky" ELSE "settled",
            !.checked = [ n |-> 1 - S.checked.n, layer |-> layer,
                          ok |-> IsWarm(reply), prior |-> S.states[layer] ],
            !.frame = [q \in Procs |->
               IF S.frame[q].layer = layer /\ IsWarm(reply)
               THEN [S.frame[q] EXCEPT !.layer200 = TRUE] ELSE S.frame[q]]]

\* The end of wait_for_ready as it would be without the finally clause, the
\* gauge decremented on the successful return only.
WaitReturn_leaky(S, p, ret, ch) ==
  AfterEnsure([S EXCEPT !.metrics.pending[S.frame[p].layer] =
                          IF ret = "true" THEN @ - 1 ELSE @,
                        !.frame[p].ret = ret,
                        !.frame[p].phase = "none",
                        !.frame[p].waited = IF ret = "false" THEN S.frame[p].elapsed ELSE 0,
                        !.frame[p].elapsed = 0], p, ch)

\* An await of ensure_ready does not return: the task of a direct caller is
\* cancelled, or the call raises what check_health does not catch.  Inside
\* wait_for_ready the finally clause runs as the exception passes.
WaitInterrupted(S, p, how) ==
  [Logged(S, p, "ensure_ready_raise") EXCEPT
     !.metrics.pending[S.frame[p].layer] =
        IF S.frame[p].phase = "wait" THEN @ - 1 ELSE @,
     !.frame[p].ret = how,
     !.frame[p].phase = "none",
     !.frame[p].elapsed = 0,
     !.pc[p] = "returned"]

\* wait_for_ready has ended: the finally clause, then ensure_ready returns
\* its result to the cascade.
WaitReturn(S, p, ret, ch) ==
  AfterEnsure([S EXCEPT !.metrics.pending[S.frame[p].layer] = @ - 1,
                        !.frame[p].ret = ret,
                        !.frame[p].phase = "none",
                        !.frame[p].waited = IF ret = "false" THEN S.frame[p].elapsed ELSE 0,
                        !.frame[p].elapsed = 0], p, ch)

\* The while test as it would be with <= for <: one more poll at the timeout.
WaitLoop_inclusive(S, p, ch) ==
  IF S.frame[p].elapsed <= S.frame[p].timeout
  THEN IssueCheck([S EXCEPT !.frame[p].polled = TRUE], p)
  ELSE WaitReturn(S, p, "false", ch)

\* The while test of wait_for_ready, with elapsed = time.time() - start.
WaitLoop(S, p, ch) ==
  IF S.frame[p].elapsed < S.frame[p].timeout
  THEN IssueCheck([S EXCEPT !.frame[p].polled = TRUE], p)
  ELSE WaitReturn(S, p, "false", ch)

\* wait_for_ready as it would be if it counted a cold start only once the
\* layer is ready: nothing is counted as the wait begins.
wait_for_ready_uncounted(S, p, layer, timeout, ch) ==
  WaitLoop([S EXCEPT !.states[layer] = "warming",
                     !.metrics.pending[layer] = @ + 1,
                     !.frame[p].phase = "wait",
                     !.frame[p].timeout = timeout,
                     !.frame[p].elapsed = 0], p, ch)

\* wait_for_ready(layer, timeout) of a configured layer, up to its first poll.
wait_for_ready(S, p, layer, timeout, ch) ==
  WaitLoop([S EXCEPT !.states[layer] = "warming",
                     !.metrics.cold_starts_total[layer] = @ + 1,
                     !.metrics.pending[layer] = @ + 1,
                     !.frame[p].phase = "wait",
                     !.frame[p].timeout = timeout,
                     !.frame[p].elapsed = 0], p, ch)

\* The answer to a health check as it would be if a poll of the wait loop
\* read the status without writing states: the layer stays WARMING when
\* wait_for_ready returns.
HealthAnswer_unwritten(S, p, reply, dur, ch) ==
  LET f == S.frame[p]
      S1 == [check_health(S, f.layer, reply) EXCEPT
               !.frame[p].saw200 = @ \/ IsWarm(reply)]
  IN IF f.phase = "first"
     THEN IF IsWarm(reply)
          THEN AfterEnsure([S1 EXCEPT !.frame[p].ret = "true",
                                      !.frame[p].first200 = TRUE,
                                      !.frame[p].phase = "none"], p, ch)
          ELSE wait_for_ready(S1, p, f.layer, WAKE_TIMEOUT, ch)
     ELSE LET S2 == [S1 EXCEPT !.frame[p].elapsed = @ + dur,
                               !.states = S.states]
          IN IF IsWarm(reply)
             THEN WaitReturn([S2 EXCEPT !.metrics.durations[f.layer] = @ + 1],
                             p, "true", ch)
             ELSE [S2 EXCEPT !.pc[p] = "sleep"]

\* The pending check_health of coroutine p is answered after dur seconds.
HealthAnswer(S, p, reply, dur, ch) ==
  LET f == S.frame[p]
      S1 == [check_health(S, f.layer, reply) EXCEPT
               !.frame[p].saw200 = @ \/ IsWarm(reply)]
  IN IF f.phase = "first"
     THEN IF IsWarm(reply)
          THEN AfterEnsure([S1 EXCEPT !.frame[p].ret = "true",
                                      !.frame[p].first200 = TRUE,
                                      !.frame[p].phase = "none"], p, ch)
          ELSE wait_for_ready(S1, p, f.layer, WAKE_TIMEOUT, ch)
     ELSE LET S2 == [S1 EXCEPT !.frame[p].elapsed = @ + dur]
          IN IF IsWarm(reply)
             THEN WaitReturn([S2 EXCEPT !.metrics.durations[f.layer] = @ + 1],
                             p, "true", ch)
             ELSE [S2 EXCEPT !.pc[p] = "sleep"]

\* The sleep as it would be with a poll interval of 0: no time passes
\* between two polls.
SleepOver_instant(S, p, ch) == WaitLoop(S, p, ch)

\* asyncio.sleep(poll_interval) is over.
SleepOver(S, p, ch) ==
  WaitLoop([S EXCEPT !.frame[p].elapsed = @ + POLL_INTERVAL], p, ch)

\* ------------------------------------------------------ replies to the cascade
SearchAnswer(S, p, reply, ch) ==
  LET l == S.loc[p]
      similar == find_similar_route(l.initialized, l.min_success_rate, "ok", reply)
      S1 == Logged(IF reply.kind = "ok" THEN S ELSE Fault(S, p, "search"), p,
                   "find_similar_ret")
  IN IF l.direct
     THEN [S1 EXCEPT !.loc[p].similar = similar, !.loc[p].search_reply = Some(reply),
                     !.pc[p] = "returned"]
     ELSE AfterTier2(Tier2(S1, p, similar), p, ch)

\* RoutingDecision(...) of process_query_internal.
Decision(l) ==
  [ query_id |-> l.query_id, route_type |-> l.route_type,
    tool |-> IF l.tool_selected \in { None, "" } THEN "unknown" ELSE l.tool_selected,
    execution_layer |-> l.exec_layer, confidence |-> l.route_confidence ]

\* resp.status_code in [200, 201], and resp.status_code == 200.
Accepted(reply) == reply.kind = "status" /\ reply.code \in { 200, 201 }

Found(reply) == reply.kind = "status" /\ reply.code = 200

\* store_routing's PUT is answered; the cascade goes on to ensure_ready.
StoreRoutingAnswer(S, p, reply, ch) ==
  LET d == Decision(S.loc[p])
      pts == IF Accepted(reply)
             THEN [id \in DOMAIN S.points \cup {d.query_id} |->
                     IF id = d.query_id THEN DecisionPayload(d) ELSE S.points[id]]
             ELSE S.points
      S1 == IF Accepted(reply) THEN S ELSE Fault(S, p, "store_routing")
      S2 == [Logged(S1, p, "store_decision_ret") EXCEPT !.points = pts]
  IN IF S.loc[p].direct
     THEN [S2 EXCEPT !.loc[p].ret = IF Accepted(reply) THEN "true" ELSE "false",
                     !.pc[p] = "returned"]
     ELSE ensure_ready(S2, p, "cascade", S.loc[p].exec_layer, ch)

Body(code) == IF code = 200 THEN "body of 200" ELSE "body of an error status"

Truthy(error) == error # Null /\ error[1] # ""

\* The POST to the layer is answered: the try block and what follows it.
ExecAnswer(S, p, reply, ch) ==
  LET l == S.loc[p]
      raised == reply.kind = "exception"
      direct == IsExecutionLayer(l.exec_layer)
      success == IF raised THEN FALSE ELSE IF direct THEN reply.code = 200 ELSE TRUE
      result == IF raised THEN Null
                ELSE IF direct THEN <<Body(reply.code)>>
                ELSE <<"Query processed via reasoning layer", Body(reply.code)>>
      error == IF raised THEN Some(reply.text) ELSE Null
      error_type == IF success THEN None
                    ELSE IF Truthy(error) THEN "tool_error" ELSE "unknown"
      r == QueryResponse(success, result, error, l.layers_activated, ch.latency_ms,
                         l.cold_starts, l.query_id, l.route_type, l.route_confidence)
  IN StoreOutcome([Logged(S, p, "exec_ret") EXCEPT !.loc[p].response = Some(r),
                                                   !.loc[p].exec_reply = Some(reply)],
                  p, success, ch.latency_ms, error_type)

\* The GET as it would be handled if store_outcome gave up when the
\* decision point cannot be read: no outcome record is written.
StatsGetAnswer_abort(S, p, reply) ==
  LET o == S.loc[p].outcome[1]
  IN IF Found(reply) /\ o.query_id \in DOMAIN S.points
     THEN [S EXCEPT !.loc[p].patch = Some(NewStats(S.points[o.query_id], o)),
                    !.pc[p] = "stats_patch"]
     ELSE [Fault(S, p, "stats_get") EXCEPT !.loc[p].ret = "false",
                                           !.pc[p] = "returned"]

\* _update_routing_stats: the GET of the decision point is answered.  A
\* store that answers finds the point or answers 404.
StatsGetAnswer(S, p, reply) ==
  LET o == S.loc[p].outcome[1]
  IN IF Found(reply) /\ o.query_id \in DOMAIN S.points
     THEN [S EXCEPT !.loc[p].patch = Some(NewStats(S.points[o.query_id], o)),
                    !.pc[p] = "stats_patch"]
     ELSE PutOutcome(IF Found(reply) THEN S ELSE Fault(S, p, "stats_get"), p)

\* The POST as it would be if the statistics were kept for the cluster of
\* similar queries: every point routed to the same layer takes them.
StatsPatchAnswer_aggregated(S, p, reply) ==
  LET o == S.loc[p].outcome[1]
      n == S.loc[p].patch[1]
  IN PutOutcome(
       IF Found(reply) /\ o.query_id \in DOMAIN S.points
       THEN [S EXCEPT !.points =
               [id \in DOMAIN S.points |->
                  IF S.points[id].execution_layer = S.points[o.query_id].execution_layer
                  THEN [S.points[id] EXCEPT !.success = Some(n.success),
                                            !.success_rate = Some(n.success_rate),
                                            !.sample_count = Some(n.sample_count),
                                            !.avg_latency_ms = Some(n.avg_latency_ms)]
                  ELSE S.points[id]]]
       ELSE IF Found(reply) THEN S ELSE Fault(S, p, "stats_patch"), p)

\* The POST of the new statistics is answered: set-payload merges the keys.
StatsPatchAnswer(S, p, reply) ==
  LET o == S.loc[p].outcome[1]
      n == S.loc[p].patch[1]
  IN PutOutcome(
       IF Found(reply) /\ o.query_id \in DOMAIN S.points
       THEN [S EXCEPT !.points[o.query_id] =
               [@ EXCEPT !.success = Some(n.success),
                         !.success_rate = Some(n.success_rate),
                         !.sample_count = Some(n.sample_count),
                         !.avg_latency_ms = Some(n.avg_latency_ms)]]
       ELSE IF Found(reply) THEN S ELSE Fault(S, p, "stats_patch"), p)

\* The answer to the PUT as it would be handled if _store_outcome did not
\* catch: a store that fails turns the response into an error.
OutcomePutAnswer_uncaught(S, p, reply) ==
  IF Accepted(reply)
  THEN Return([Logged(S, p, "store_outcome_ret") EXCEPT
                 !.outcomes = @ \cup { S.loc[p].outcome[1] }], p)
  ELSE Return([Logged(Fault(S, p, "outcome_put"), p, "store_outcome_ret") EXCEPT
                 !.loc[p].response =
                   Some([@[1] EXCEPT !.success = FALSE,
                                     !.error = Some("store_outcome failed")])], p)

\* The PUT of the outcome record is answered; _store_outcome returns.
OutcomePutAnswer(S, p, reply) ==
  LET S1 == IF Accepted(reply)
            THEN [Logged(S, p, "store_outcome_ret") EXCEPT
                    !.outcomes = @ \cup { S.loc[p].outcome[1] }]
            ELSE Logged(Fault(S, p, "outcome_put"), p, "store_outcome_ret")
  IN IF S.loc[p].direct
     THEN [S1 EXCEPT !.loc[p].ret = IF Accepted(reply) THEN "true" ELSE "false",
                     !.pc[p] = "returned"]
     ELSE Return(S1, p)

\* record_feedback: the scroll of the outcomes collection is answered; hit
\* is the outcome it returns for the query id (limit 1), Null for none.
ScrollAnswer(S, p, reply, hit) ==
  IF ~Found(reply) \/ hit = Null
  THEN [S EXCEPT !.loc[p].ret = "false", !.pc[p] = "returned"]
  ELSE [S EXCEPT !.loc[p].outcome = hit, !.pc[p] = "fb_mark"]

\* record_feedback has posted its last payload and returns True, or False
\* from the except clause.
FeedbackReturn(S, p, reply) ==
  [S EXCEPT !.loc[p].ret = IF reply.kind = "exception" THEN "false" ELSE "true",
            !.pc[p] = "returned"]

\* The POST of the penalty is answered: set-payload adds the key to the
\* decision point, if there is such a point.
PenaltyAnswer(S, p, reply) ==
  LET qid == S.loc[p].query_id
  IN FeedbackReturn(
       IF Found(reply) /\ qid \in DOMAIN S.points
       THEN [S EXCEPT !.points[qid].success_rate_adjustment = Some(FEEDBACK_PENALTY)]
       ELSE S, p, reply)

\* The POST of user_feedback to the outcome is answered; negative feedback
\* goes on to the penalty.
MarkAnswer(S, p, reply) ==
  LET l == S.loc[p]
      o == l.outcome[1]
      S1 == IF Found(reply)
            THEN [S EXCEPT !.outcomes =
                    (@ \ { o }) \cup { [o EXCEPT !.user_feedback = l.feedback] }]
            ELSE S
  IN IF reply.kind = "exception" THEN FeedbackReturn(S1, p, reply)
     ELSE IF l.feedback = "negative" THEN [S1 EXCEPT !.pc[p] = "fb_penalty"]
     ELSE FeedbackReturn(S1, p, reply)

\* ----------------------------------------------------------------- actions
Init ==
  /\ learning \in { "absent", "enabled" }
  /\ states = [l \in LAYERS |-> "cold"]
  /\ metrics = [ cold_starts_total |-> [l \in LAYERS |-> 0],
                 pending |-> [l \in LAYERS |-> 0],
                 durations |-> [l \in LAYERS |-> 0] ]
  /\ points = <<>>
  /\ outcomes = {}
  /\ nextId = 1
  /\ nCalls = 0
  /\ nProbes = 0
  /\ endpoint = [l \in LAYERS |-> "flaky"]
  /\ checked = NoCheck
  /\ det = NoDetect
  /\ esc = NoEscalate
  /\ scored = NoScore
  /\ consumer = NoConsumer
  /\ retry = NoRetry
  /\ pc = [p \in Procs |-> "idle"]
  /\ loc = [p \in Procs |-> NoQuery]
  /\ frame = [p \in Procs |-> NoFrame]
  /\ resp = [p \in Procs |-> Null]
  /\ log = [p \in Procs |-> <<>>]

\* POST /query, or a task of the stream: process_query_internal is entered.
ReceiveQuery(p) ==
  /\ pc[p] = "idle"
  /\ \E query \in Queries : \E ch \in Choices :
       Apply(process_query_internal(Cur, p, query, ch))

SearchAnswers(p) ==
  /\ pc[p] = "search"
  /\ \E reply \in SearchReplies(points, loc[p].pool) : \E ch \in LaterChoices :
       Apply(SearchAnswer(Cur, p, reply, ch))

StoreRoutingAnswers(p) ==
  /\ pc[p] = "store_routing"
  /\ \E reply \in StoreReplies : \E ch \in TimeChoices :
       Apply(StoreRoutingAnswer(Cur, p, reply, ch))

\* The pending health check of p is answered after one of durations seconds.
HealthAnswersIn(p, durations) ==
  /\ pc[p] = "check_health"
  /\ \E reply \in HealthRepliesOf(Cur, frame[p].layer) :
     \E dur \in durations : \E ch \in TimeChoices :
       Apply(HealthAnswer(Cur, p, reply, dur, ch))

HealthAnswers(p) == HealthAnswersIn(p, 0..HEALTH_TIMEOUT)

SleepEnds(p) ==
  /\ pc[p] = "sleep"
  /\ \E ch \in TimeChoices : Apply(SleepOver(Cur, p, ch))

ExecAnswers(p) ==
  /\ pc[p] = "execute"
  /\ \E reply \in ExecReplies : \E ch \in TimeChoices :
       Apply(ExecAnswer(Cur, p, reply, ch))

StatsGetAnswers(p) ==
  /\ pc[p] = "stats_get"
  /\ \E reply \in StoreReplies : Apply(StatsGetAnswer(Cur, p, reply))

StatsPatchAnswers(p) ==
  /\ pc[p] = "stats_patch"
  /\ \E reply \in StoreReplies : Apply(StatsPatchAnswer(Cur, p, reply))

OutcomePutAnswers(p) ==
  /\ pc[p] = "outcome_put"
  /\ \E reply \in StoreReplies : Apply(OutcomePutAnswer(Cur, p, reply))

\* check_health of the /status, /ready and startup handlers is answered.
Probe(layers) ==
  /\ nProbes < MaxProbes
  /\ \E layer \in layers \cap LAYERS : \E reply \in HealthRepliesOf(Cur, layer) :
       Apply([check_health(Cur, layer, reply) EXCEPT !.nProbes = @ + 1])

\* A direct caller awaits LayerManager.ensure_ready(layer).
ReadyLayers == { "execution-unifi-api", "execution-unifi-cli" }

\* A direct caller awaits find_similar_route(query, min_success_rate) of a
\* client that is initialized or not.
MinSuccessArgs ==
  { Null, Some(Rat(0, 1)), Some(Rat(50, 100)), Some(Rat(90, 100)), Some(Rat(1, 1)) }

CallFindSimilar(p, pool) ==
  /\ pc[p] = "idle"
  /\ \E initialized \in BOOLEAN : \E arg \in MinSuccessArgs : \E embed \in EmbedOutcomes :
       LET S0 == [Logged(Cur, p, "find_similar_call") EXCEPT
                    !.loc[p] = [NoQuery EXCEPT !.direct = TRUE,
                                               !.pool = pool,
                                               !.initialized = initialized,
                                               !.min_success_rate = arg]]
       IN Apply(IF initialized /\ embed = "ok"
                THEN [S0 EXCEPT !.pc[p] = "search"]
                ELSE [S0 EXCEPT !.pc[p] = "returned",
                                !.loc[p].similar =
                                  find_similar_route(initialized, arg, embed, Raised(""))])

\* A direct caller awaits store_routing(decision) for a fresh query id.
DirectDecisions ==
  { [ route_type |-> "keyword", tool_selected |-> "get_devices",
      exec_layer |-> "execution-unifi-api", route_confidence |-> KEYWORD_CONFIDENCE ],
    [ route_type |-> "slm", tool_selected |-> None,
      exec_layer |-> "reasoning-slm", route_confidence |-> ZeroConfidence ] }

CallStoreRouting(p) ==
  /\ pc[p] = "idle"
  /\ \E initialized \in BOOLEAN : \E d \in DirectDecisions :
       LET S0 == [Logged(Cur, p, "store_decision_call") EXCEPT
                    !.nextId = @ + 1,
                    !.loc[p] = [NoQuery EXCEPT !.direct = TRUE,
                                               !.initialized = initialized,
                                               !.query_id = nextId,
                                               !.route_type = d.route_type,
                                               !.tool_selected = d.tool_selected,
                                               !.exec_layer = d.exec_layer,
                                               !.route_confidence = d.route_confidence]]
       IN Apply(IF initialized
                THEN [S0 EXCEPT !.pc[p] = "store_routing"]
                ELSE [S0 EXCEPT !.loc[p].ret = "false", !.pc[p] = "returned"])

\* The query ids a direct caller passes: those of the stored decisions and
\* one that has none.
QueryIds == DOMAIN points \cup { 999 }

\* A direct caller awaits store_outcome(outcome).
CallStoreOutcome(p) ==
  /\ pc[p] = "idle"
  /\ \E initialized \in BOOLEAN : \E qid \in QueryIds :
     \E success \in BOOLEAN : \E latency_ms \in Latencies :
       LET S0 == [Logged(Cur, p, "store_outcome_call") EXCEPT
                    !.nextId = @ + 1,
                    !.loc[p] = [NoQuery EXCEPT
                       !.direct = TRUE,
                       !.initialized = initialized,
                       !.query_id = qid,
                       !.before = IF qid \in DOMAIN points THEN Some(points[qid]) ELSE Null,
                       !.outcome =
                         Some([ outcome_id |-> nextId, query_id |-> qid,
                                success |-> success, latency_ms |-> latency_ms,
                                error_type |-> None, user_feedback |-> None ])]]
       IN Apply(IF initialized
                THEN [S0 EXCEPT !.pc[p] = "stats_get"]
                ELSE [S0 EXCEPT !.loc[p].ret = "false", !.pc[p] = "returned"])

\* A direct caller awaits record_feedback(query_id, feedback).
CallRecordFeedback(p) ==
  /\ pc[p] = "idle"
  /\ \E initialized \in BOOLEAN : \E qid \in QueryIds :
     \E feedback \in { "positive", "negative" } :
       LET S0 == [Logged(Cur, p, "record_feedback_call") EXCEPT
                    !.loc[p] = [NoQuery EXCEPT
                       !.direct = TRUE,
                       !.initialized = initialized,
                       !.query_id = qid,
                       !.before = IF qid \in DOMAIN points THEN Some(points[qid]) ELSE Null,
                       !.feedback = feedback]]
       IN Apply(IF initialized
                THEN [S0 EXCEPT !.pc[p] = "fb_scroll"]
                ELSE [S0 EXCEPT !.loc[p].ret = "false", !.pc[p] = "returned"])

ScrollAnswers(p) ==
  /\ pc[p] = "fb_scroll"
  /\ \E reply \in StoreReplies :
       LET matching == { o \in outcomes : o.query_id = loc[p].query_id }
       IN \E hit \in IF matching = {} THEN { Null } ELSE { Some(o) : o \in matching } :
            Apply(ScrollAnswer(Cur, p, reply, hit))

MarkAnswers(p) ==
  /\ pc[p] = "fb_mark"
  /\ \E reply \in StoreReplies : Apply(MarkAnswer(Cur, p, reply))

PenaltyAnswers(p) ==
  /\ pc[p] = "fb_penalty"
  /\ \E reply \in StoreReplies : Apply(PenaltyAnswer(Cur, p, reply))

\* The direct caller makes its next call.
NextCall(p) ==
  /\ pc[p] = "returned"
  /\ nCalls + 1 < MaxOps
  /\ Apply([Cur EXCEPT !.nCalls = @ + 1, !.pc[p] = "idle", !.loc[p] = NoQuery,
                        !.log[p] = <<>>])

CallEnsureReady(p) ==
  /\ pc[p] \in { "idle", "returned" }
  /\ nCalls < MaxCalls
  /\ \E layer \in ReadyLayers : \E ch \in TimeChoices :
       Apply(ensure_ready([Cur EXCEPT !.nCalls = @ + 1, !.log[p] = <<>>],
                          p, "direct", layer, ch))

\* The coroutine of one query.
Cascade(p) ==
  \/ ReceiveQuery(p)
  \/ SearchAnswers(p)
  \/ StoreRoutingAnswers(p)
  \/ HealthAnswers(p)
  \/ SleepEnds(p)
  \/ ExecAnswers(p)
  \/ StatsGetAnswers(p)
  \/ StatsPatchAnswers(p)
  \/ OutcomePutAnswers(p)

\* One query, from its arrival to its response.
Next == Cascade("q1")

\* A query arrives while the collection also holds points that store_routing
\* did not write.
ReceiveForeign(p) ==
  /\ pc[p] = "idle"
  /\ \E query \in Queries : \E ch \in Choices :
       Apply([process_query_internal(Cur, p, query, ch) EXCEPT !.loc[p].pool = "any"])

NextForeign ==
  \/ ReceiveForeign("q1")
  \/ SearchAnswers("q1")
  \/ StoreRoutingAnswers("q1")
  \/ HealthAnswers("q1")
  \/ SleepEnds("q1")
  \/ ExecAnswers("q1")
  \/ StatsGetAnswers("q1")
  \/ StatsPatchAnswers("q1")
  \/ OutcomePutAnswers("q1")

SpecForeign == Init /\ [][NextForeign]_vars

\* The queries of the model and one more, which no rule and no keyword of
\* needs_reasoning matches.
ScoredQueries == Queries \cup { << "compare", "all", "networks" >> }

ReceiveScored(p) ==
  /\ pc[p] = "idle"
  /\ \E query \in ScoredQueries : \E ch \in Choices :
       Apply(process_query_internal(Cur, p, query, ch))

NextTiers ==
  \/ ReceiveScored("q1")
  \/ SearchAnswers("q1")
  \/ StoreRoutingAnswers("q1")
  \/ HealthAnswers("q1")
  \/ SleepEnds("q1")
  \/ ExecAnswers("q1")
  \/ StatsGetAnswers("q1")
  \/ StatsPatchAnswers("q1")
  \/ OutcomePutAnswers("q1")

SpecTiers == Init /\ [][NextTiers]_vars

Spec == Init /\ [][Next]_vars

\* One query with the learning client absent (LEARNING_ENABLED off), and
\* every awaited call answered: a health check and the POST to the layer
\* return or raise within the timeout of their client, and a sleep ends.
InitWake == Init /\ learning = "absent"

Answers(p) == HealthAnswers(p) \/ SleepEnds(p) \/ ExecAnswers(p)

NextWake == ReceiveQuery("q1") \/ Answers("q1")

SpecWake == InitWake /\ [][NextWake]_vars /\ WF_vars(Answers("q1"))

\* LayerManager alone: ensure_ready called directly, one call after the
\* other, with the probes of the other handlers interleaved.
NextReady ==
  \/ CallEnsureReady("q2")
  \/ HealthAnswers("q2")
  \/ SleepEnds("q2")
  \/ Probe(ReadyLayers)

SpecReady == Init /\ [][NextReady]_vars

\* The health endpoint of a layer answers 200 to every check from now on.
Recover(layer) ==
  /\ endpoint[layer] = "flaky"
  /\ Apply([Cur EXCEPT !.endpoint[layer] = "stable"])

\* A coroutine awaits ensure_ready for a configured layer, once.
StartEnsureReady(p) ==
  /\ pc[p] = "idle"
  /\ \E layer \in ReadyLayers \cap LAYERS : \E ch \in TimeChoices :
       Apply(ensure_ready(Cur, p, "direct", layer, ch))

\* LayerManager shared by concurrent queries: ensure_ready is called by two
\* coroutines whose awaits interleave, with the probes of the health
\* handlers, on a layer that recovers at some point.  Each check is answered
\* at the end of its timeout, which bounds the polls of a wait.
NextRace ==
  \/ \E p \in Procs : \/ StartEnsureReady(p)
                       \/ HealthAnswersIn(p, { HEALTH_TIMEOUT })
                       \/ SleepEnds(p)
  \/ Probe(ReadyLayers)
  \/ \E layer \in ReadyLayers \cap LAYERS : Recover(layer)

SpecRace == Init /\ [][NextRace]_vars

\* detect_mode is called, with any arguments.
DetectMode ==
  /\ ~det.called
  /\ \E found \in PatternMatches : \E complexity \in ComplexityScores :
     \E previous_confidence \in PreviousConfidences :
     \E previous_success \in PreviousSuccesses :
    Apply([Cur EXCEPT !.det =
      [ called |-> TRUE, found |-> Some(found), complexity |-> Some(complexity),
        previous_confidence |-> previous_confidence,
        previous_success |-> previous_success,
        steps |-> DetectSteps(found, complexity, previous_confidence, previous_success),
        decision |-> Some(detect_mode(found, complexity, previous_confidence,
                                      previous_success)) ]])

NextMode == DetectMode

SpecMode == Init /\ [][NextMode]_vars

\* should_escalate is called, with any context.
ShouldEscalate ==
  /\ ~esc.called
  /\ \E ctx \in EscalationContexts :
       Apply([Cur EXCEPT !.esc = [ called |-> TRUE, ctx |-> Some(ctx),
                                   ret |-> Some(should_escalate(ctx)) ]])

NextEscalate == ShouldEscalate

SpecEscalate == Init /\ [][NextEscalate]_vars

\* score_complexity is called, with any query and context.
ScoreComplexity ==
  /\ scored.calls = 0
  /\ \E text \in QueryFeatures : \E context \in Contexts :
       Apply([Cur EXCEPT !.scored =
         [ calls |-> 1, text |-> Some(text), context |-> context,
           result |-> Some(score_complexity(text, context)), again |-> Null ]])

\* score_complexity is called again with the same query and context.
Rescore ==
  /\ scored.calls = 1
  /\ Apply([Cur EXCEPT !.scored.calls = 2,
                       !.scored.again =
                         Some(score_complexity(scored.text[1], scored.context))])

NextScore == ScoreComplexity \/ Rescore

SpecScore == Init /\ [][NextScore]_vars

\* QdrantLearningClient alone: find_similar_route called directly.
NextSimilar == CallFindSimilar("q2", "any") \/ SearchAnswers("q2")

SpecSimilar == Init /\ [][NextSimilar]_vars

\* QdrantLearningClient's stores: store_routing, store_outcome,
\* record_feedback and find_similar_route called directly, one call after the
\* other, on a collection that holds the decisions of earlier queries.
StoredDecision(rate, count, latency) ==
  [ExamplePayload(count) EXCEPT !.success_rate = Some(rate),
                                !.avg_latency_ms = Some(latency),
                                !.query_id = Some(902)]

InitialPoints ==
  { [id \in { 901, 902 } |-> IF id = 901 THEN ExamplePayload(5) ELSE second] :
      second \in { StoredDecision(Rat(1, 1), 1, Rat(100, 1)),
                   StoredDecision(Rat(0, 1), 1, Rat(0, 1)) } }

InitLearning ==
  /\ learning = "enabled"
  /\ states = [l \in LAYERS |-> "cold"]
  /\ metrics = [ cold_starts_total |-> [l \in LAYERS |-> 0],
                 pending |-> [l \in LAYERS |-> 0],
                 durations |-> [l \in LAYERS |-> 0] ]
  /\ points \in InitialPoints
  /\ outcomes = {}
  /\ nextId = 1
  /\ nCalls = 0
  /\ nProbes = 0
  /\ endpoint = [l \in LAYERS |-> "flaky"]
  /\ checked = NoCheck
  /\ det = NoDetect
  /\ esc = NoEscalate
  /\ scored = NoScore
  /\ consumer = NoConsumer
  /\ retry = NoRetry
  /\ pc = [p \in Procs |-> "idle"]
  /\ loc = [p \in Procs |-> NoQuery]
  /\ frame = [p \in Procs |-> NoFrame]
  /\ resp = [p \in Procs |-> Null]
  /\ log = [p \in Procs |-> <<>>]

NextLearning ==
  \/ CallStoreRouting("q2")
  \/ StoreRoutingAnswers("q2")
  \/ CallStoreOutcome("q2")
  \/ StatsGetAnswers("q2")
  \/ StatsPatchAnswers("q2")
  \/ OutcomePutAnswers("q2")
  \/ CallRecordFeedback("q2")
  \/ ScrollAnswers("q2")
  \/ MarkAnswers("q2")
  \/ PenaltyAnswers("q2")
  \/ CallFindSimilar("q2", "stored")
  \/ SearchAnswers("q2")
  \/ NextCall("q2")

SpecLearning == InitLearning /\ [][NextLearning]_vars

\* The consume task of CortexClient: one step per answered await.
ConsumeStep ==
  /\ consumer.at \notin { "stopped", "crashed" }
  /\ \E reply \in AwaitReplies :
       /\ _consume_loop(consumer, reply) # consumer
       /\ Apply([Cur EXCEPT !.consumer = _consume_loop(consumer, reply)])

NextConsume == ConsumeStep

SpecConsume == Init /\ [][NextConsume]_vars

\* A caller starts a retry loop in any mode.
StartRetry ==
  /\ retry.mode = None
  /\ \E mode \in QueryMode : Apply([Cur EXCEPT !.retry.mode = mode])

\* One attempt ends, should_escalate is asked, and its new mode is adopted.
RetryAttempt ==
  /\ retry.mode # None
  /\ Len(retry.attempts) < MaxAttempts
  /\ \E ctx \in RetryContexts(retry) :
       Apply([Cur EXCEPT !.retry = Attempt(retry, ctx)])

NextRetry == StartRetry \/ RetryAttempt

SpecRetry == Init /\ [][NextRetry]_vars

\* The queries of SpecFresh: one that Tier 1 routes and two that reach the
\* similarity search.
FreshQueries == { <<"unblock", "clients">>, <<"hello">>, <<"Why", "is", "wifi", "slow">> }

\* A query arrives with a fresh query_id, one after the other, while the
\* collection holds nothing but what this cascade has written.
ReceiveFresh(p) ==
  /\ pc[p] \in { "idle", "done" }
  /\ pc["q2"] = "idle"
  /\ nextId < MaxIds
  /\ \E query \in FreshQueries : \E ch \in Choices :
       Apply([process_query_internal(Cur, p, query, ch) EXCEPT !.loc[p].pool = "stored"])

\* Between two queries a client of the learning store calls record_feedback.
FeedbackFresh(p) ==
  /\ pc["q1"] \in { "idle", "done" }
  /\ nextId < MaxIds
  /\ CallRecordFeedback(p)

\* record_feedback has returned; another call may follow.
NextFeedback(p) ==
  /\ pc[p] = "returned"
  /\ Apply([Cur EXCEPT !.pc[p] = "idle", !.loc[p] = NoQuery, !.log[p] = <<>>])

\* The learning store from empty: the cascade of coroutine q1 query after
\* query, and record_feedback calls of coroutine q2 between the queries.
NextFresh ==
  \/ ReceiveFresh("q1")
  \/ SearchAnswers("q1")
  \/ StoreRoutingAnswers("q1")
  \/ HealthAnswers("q1")
  \/ ExecAnswers("q1")
  \/ StatsGetAnswers("q1")
  \/ StatsPatchAnswers("q1")
  \/ OutcomePutAnswers("q1")
  \/ FeedbackFresh("q2")
  \/ ScrollAnswers("q2")
  \/ MarkAnswers("q2")
  \/ PenaltyAnswers("q2")
  \/ NextFeedback("q2")

\* The state after startup with an empty collection and every layer up: its
\* health endpoint answers 200 to every check.
InitFresh ==
  /\ learning = "enabled"
  /\ states = [l \in LAYERS |-> "cold"]
  /\ metrics = [ cold_starts_total |-> [l \in LAYERS |-> 0],
                 pending |-> [l \in LAYERS |-> 0],
                 durations |-> [l \in LAYERS |-> 0] ]
  /\ points = <<>>
  /\ outcomes = {}
  /\ nextId = 1
  /\ nCalls = 0
  /\ nProbes = 0
  /\ endpoint = [l \in LAYERS |-> "stable"]
  /\ checked = NoCheck
  /\ det = NoDetect
  /\ esc = NoEscalate
  /\ scored = NoScore
  /\ consumer = NoConsumer
  /\ retry = NoRetry
  /\ pc = [p \in Procs |-> "idle"]
  /\ loc = [p \in Procs |-> NoQuery]
  /\ frame = [p \in Procs |-> NoFrame]
  /\ resp = [p \in Procs |-> Null]
  /\ log = [p \in Procs |-> <<>>]

SpecFresh == InitFresh /\ [][NextFresh]_vars

\* A query for the UniFi API layer arrives.
ApiQueries == { <<"unblock", "clients">>, <<"LIST", "all", "Devices">> }

ReceiveApi(p) ==
  /\ pc[p] = "idle"
  /\ \E query \in ApiQueries : \E ch \in Choices :
       Apply(process_query_internal(Cur, p, query, ch))

\* LayerManager shared by the cascade and another caller: the query of
\* coroutine q1 and an ensure_ready of coroutine q2 for the same layer, their
\* awaits interleaved with each other and with the probes of the health
\* handlers.
NextShared ==
  \/ ReceiveApi("q1")
  \/ ExecAnswers("q1")
  \/ StartEnsureReady("q2")
  \/ \E p \in Procs : \/ HealthAnswersIn(p, { HEALTH_TIMEOUT })
                       \/ SleepEnds(p)
  \/ Probe(ReadyLayers)

SpecShared == InitWake /\ [][NextShared]_vars

\* Outcomes recorded concurrently: two coroutines call store_outcome, each
\* once, on the decisions of earlier queries, and their awaits interleave.
NextOutcomes ==
  \E p \in Procs : \/ CallStoreOutcome(p)
                   \/ StatsGetAnswers(p)
                   \/ StatsPatchAnswers(p)
                   \/ OutcomePutAnswers(p)

SpecOutcomes == InitLearning /\ [][NextOutcomes]_vars

\* The pending await of a direct ensure_ready call is cancelled or raises.
Interrupt(p) ==
  /\ pc[p] \in { "check_health", "sleep" }
  /\ frame[p].caller = "direct"
  /\ \E how \in { "cancelled", "raised" } : Apply(WaitInterrupted(Cur, p, how))

\* The pending-requests gauge under concurrent waits: two coroutines call
\* ensure_ready, their awaits interleave with each other and with the probes
\* of the health handlers, and any await may be cancelled or raise.
NextGauge ==
  \/ \E p \in Procs : \/ StartEnsureReady(p)
                       \/ HealthAnswersIn(p, { HEALTH_TIMEOUT })
                       \/ SleepEnds(p)
                       \/ Interrupt(p)
  \/ Probe(ReadyLayers)

SpecGauge == Init /\ [][NextGauge]_vars

\* ------------------------------------------------------------- properties
\* How often an event is in a log, and whether every b of a log has an a
\* before it.
Count(s, e) == Cardinality({ i \in DOMAIN s : s[i] = e })

Range(s) == { s[i] : i \in DOMAIN s }

Precedes(s, a, b) ==
  \A j \in DOMAIN s : s[j] = b => \E i \in DOMAIN s : i < j /\ s[i] = a

\* The learning-store calls a query coroutine can be suspended on.
StoreAwaits == { "store_routing", "stats_get", "stats_patch", "outcome_put" }

\* The rule a query matches first, in the order of the table.
IsFirstMatch(i, query) ==
  /\ RuleMatches(ROUTING_RULES[i], query)
  /\ \A j \in DOMAIN ROUTING_RULES : j < i => ~RuleMatches(ROUTING_RULES[j], query)

\* C1: a query that matches a routing rule is answered with route_type
\* keyword and route_confidence 0.95, its tool and execution layer are those
\* of the first rule of the table that matches, and ensure_ready is asked for
\* that layer; this whether the learning client is absent, answers or fails.
C1_RuleMatchIsKeywordRoute ==
  \A p \in Procs : \A i \in DOMAIN ROUTING_RULES :
    (resp[p] # Null /\ IsFirstMatch(i, loc[p].query)) =>
      /\ resp[p][1].route_type = "keyword"
      /\ resp[p][1].route_confidence = <<19, 20>>
      /\ loc[p].tool_selected = ROUTING_RULES[i].tool
      /\ loc[p].exec_layer = ExecutionLayerOf(ROUTING_RULES[i].execution)
      /\ frame[p].layer = loc[p].exec_layer
      /\ loc[p].similar = Null

\* A query two rules match is answered while the decision store fails.
C1_Witness ==
  /\ resp["q1"] # Null
  /\ loc["q1"].query = <<"show", "devices", "logs">>
  /\ learning = "enabled"
  /\ "store_routing" \in loc["q1"].faults

\* An ensure_ready call on a configured layer has returned.
Returned(p) == frame[p].ret # None /\ frame[p].layer \in LAYERS

\* C2 as stated: ensure_ready on a configured layer returns true exactly when
\* one of its health checks (each is issued before the wake timeout has
\* elapsed) was answered 200; on a layer that never answers 200 it returns
\* false within one poll interval of the timeout, and the layer is then not
\* tracked as warm.
C2_ReturnsWithinOnePollInterval ==
  \A p \in Procs : Returned(p) =>
    /\ (frame[p].ret = "true") <=> frame[p].saw200
    /\ ~frame[p].layer200 =>
         /\ frame[p].ret = "false"
         /\ frame[p].waited <= WAKE_TIMEOUT + POLL_INTERVAL
         /\ states[frame[p].layer] # "warm"

\* C2, amended: ensure_ready on a configured layer returns true exactly when
\* one of its health checks was answered 200; it returns false no earlier than
\* the wake timeout and less than one health check and one poll interval after
\* it; on a layer that never answers 200 it returns false and the layer is
\* then not tracked as warm.
C2_ReturnsAfterLastPoll ==
  \A p \in Procs : Returned(p) =>
    /\ (frame[p].ret = "true") <=> frame[p].saw200
    /\ frame[p].ret = "false" =>
         /\ frame[p].waited >= WAKE_TIMEOUT
         /\ frame[p].waited < WAKE_TIMEOUT + HEALTH_TIMEOUT + POLL_INTERVAL
    /\ ~frame[p].layer200 =>
         /\ frame[p].ret = "false"
         /\ states[frame[p].layer] # "warm"

\* A layer that never answered 200 is given up more than one poll interval
\* after the timeout.
C2_Witness ==
  \E p \in Procs :
    /\ Returned(p)
    /\ frame[p].ret = "false"
    /\ ~frame[p].layer200
    /\ frame[p].waited > WAKE_TIMEOUT + POLL_INTERVAL

\* C3 as stated: ensure_ready on a layer tracked as warm returns true without
\* a health check; on a cold layer (tracked as cold and not answering 200) it
\* calls wait_for_ready; on an unknown layer it returns false.
C3_WarmLayerIsNotChecked ==
  \A p \in Procs : frame[p].ret # None =>
    /\ frame[p].tracked = "warm" => (frame[p].ret = "true" /\ ~frame[p].probed)
    /\ (frame[p].tracked = "cold" /\ ~frame[p].first200) => frame[p].polled
    /\ frame[p].layer \notin LAYERS => frame[p].ret = "false"

\* C3, amended: ensure_ready does not consult the tracked state.  On a
\* configured layer it always issues one health check first; answered 200 it
\* returns true without entering wait_for_ready, answered otherwise it calls
\* wait_for_ready; on an unknown layer it returns false with no health check.
C3_FirstCheckDecides ==
  \A p \in Procs : frame[p].ret # None =>
    IF frame[p].layer \in LAYERS
    THEN /\ frame[p].probed
         /\ frame[p].first200 => (frame[p].ret = "true" /\ ~frame[p].polled)
         /\ ~frame[p].first200 => frame[p].polled
    ELSE frame[p].ret = "false" /\ ~frame[p].probed /\ ~frame[p].polled

\* A layer tracked as warm at the call is checked, polled and given up.
C3_Witness ==
  \E p \in Procs :
    /\ frame[p].tracked = "warm"
    /\ frame[p].probed
    /\ frame[p].polled
    /\ frame[p].ret = "false"

GaveUp(p) == resp[p] # Null /\ frame[p].caller = "cascade" /\ frame[p].ret = "false"

\* C5 as stated: when ensure_ready returns false the cascade records exactly
\* one failed outcome of class layer_unavailable for the query, returns
\* success = false with an error, and calls no layer.
C5_RecordsOneFailedOutcome ==
  \A p \in Procs : GaveUp(p) =>
    /\ Count(log[p], "store_outcome_call") = 1
    /\ loc[p].outcome # Null
    /\ resp[p][1].success = FALSE
    /\ resp[p][1].error # Null
    /\ Count(log[p], "exec_call") = 0

\* C5, amended: when ensure_ready returns false the cascade calls
\* _store_outcome once; with the learning client enabled that hands the store
\* exactly one outcome with success = false and class layer_unavailable for
\* the query (kept if the store accepts it), with the client absent nothing is
\* recorded; in both cases the response has success = false and an error and
\* no layer was called.
C5_LayerUnavailable ==
  \A p \in Procs : GaveUp(p) =>
    /\ Count(log[p], "_store_outcome") = 1
    /\ Count(log[p], "store_outcome_call") = (IF learning = "enabled" THEN 1 ELSE 0)
    /\ learning = "enabled" =>
         /\ loc[p].outcome # Null
         /\ loc[p].outcome[1].query_id = loc[p].query_id
         /\ loc[p].outcome[1].success = FALSE
         /\ loc[p].outcome[1].error_type = "layer_unavailable"
         /\ outcomes \subseteq { loc[p].outcome[1] }
    /\ learning # "enabled" => (loc[p].outcome = Null /\ outcomes = {})
    /\ resp[p][1].success = FALSE
    /\ resp[p][1].error # Null
    /\ resp[p][1].query_id = loc[p].query_id
    /\ resp[p][1].layers_activated = <<>>
    /\ Count(log[p], "exec_call") = 0
    /\ loc[p].exec_reply = Null

\* The failed outcome of a query whose layer did not wake is in the store.
C5_Witness ==
  /\ GaveUp("q1")
  /\ frame["q1"].polled
  /\ loc["q1"].outcome # Null
  /\ outcomes = { loc["q1"].outcome[1] }

ExpectedLayer(l) ==
  LET rule == classify(l.query)
  IN IF rule # 0 THEN ExecutionLayerOf(ROUTING_RULES[rule].execution)
     ELSE IF l.similar # Null /\ l.similar[1].execution_layer # ""
     THEN l.similar[1].execution_layer
     ELSE IF needs_reasoning(l.query) THEN "reasoning-slm" ELSE "reasoning-classifier"

ExpectedResponse(l, ret) ==
  LET rule == classify(l.query)
      layer == ExpectedLayer(l)
      learned == rule = 0 /\ l.similar # Null
      reply == l.exec_reply[1]
  IN [ route_type |->
         IF rule # 0 THEN "keyword"
         ELSE IF learned /\ l.similar[1].execution_layer # "" THEN "similarity"
         ELSE IF needs_reasoning(l.query) THEN "slm" ELSE "classifier",
       route_confidence |->
         IF rule # 0 THEN KEYWORD_CONFIDENCE
         ELSE IF learned THEN RatMul(l.similar[1].similarity, l.similar[1].success_rate)
         ELSE ZeroConfidence,
       layers_activated |-> IF ret = "true" THEN <<layer>> ELSE <<>>,
       success |->
         IF ret # "true" \/ reply.kind = "exception" THEN FALSE
         ELSE IF IsExecutionLayer(layer) THEN reply.code = 200 ELSE TRUE,
       result |->
         IF ret # "true" \/ reply.kind = "exception" THEN Null
         ELSE IF IsExecutionLayer(layer) THEN <<Body(reply.code)>>
         ELSE <<"Query processed via reasoning layer", Body(reply.code)>>,
       error |->
         IF ret # "true" THEN LayerFailed(layer)
         ELSE IF reply.kind = "exception" THEN Some(reply.text) ELSE Null ]

\* C7: the response of a query is a function of the query, the route found,
\* the readiness of its layer and the layer's answer: whether the calls of
\* store_decision and store_outcome fail or not, success, result, error,
\* route_type, route_confidence and layers_activated are the same, and a
\* query whose store calls failed still ends with a response.
C7_StoreFailuresInvisible ==
  \A p \in Procs : (pc[p] = "done" /\ ~loc[p].direct) =>
    /\ resp[p] # Null
    /\ LET r == resp[p][1]
           e == ExpectedResponse(loc[p], frame[p].ret)
       IN /\ r.success = e.success
          /\ r.result = e.result
          /\ r.error = e.error
          /\ r.route_type = e.route_type
          /\ r.route_confidence = e.route_confidence
          /\ r.layers_activated = e.layers_activated

\* A learned route was executed and answered while every call of the outcome
\* store failed.
C7_Witness ==
  /\ resp["q1"] # Null
  /\ resp["q1"][1].success
  /\ resp["q1"][1].route_type = "similarity"
  /\ { "store_routing", "stats_get", "outcome_put" } \subseteq loc["q1"].faults

\* C8: a response with success = false carries an error, and comes only from
\* ensure_ready having returned false or from an execution error (the layer
\* call raised or was answered with an error status).
C8_FailureCarriesError ==
  \A p \in Procs : (resp[p] # Null /\ ~resp[p][1].success) =>
    /\ resp[p][1].error # Null
    /\ \/ frame[p].ret = "false"
       \/ /\ loc[p].exec_reply # Null
          /\ loc[p].exec_reply[1] # Status(200)

\* C9: when the call of the layer raised or was answered with a status other
\* than 200, the response has success = false and so has the outcome handed
\* to the store, on execution layers and on reasoning layers alike.
C9_BackendFailureFails ==
  \A p \in Procs :
    (resp[p] # Null /\ loc[p].exec_reply # Null /\ loc[p].exec_reply[1] # Status(200)) =>
      /\ ~resp[p][1].success
      /\ loc[p].outcome # Null => ~loc[p].outcome[1].success

\* The candidates of a search answer all carry a known route type.
WellFormed(results) ==
  \A i \in DOMAIN results : Get(results[i].payload, "route_type", "similarity") \in RouteTypes

\* C10: find_similar_route returns the first candidate, in the order of the
\* answer, whose success_rate is at least the threshold (the caller's
\* min_success_rate if given, else 0.8) and whose sample_count is at least 3;
\* it returns none if there is none, if the search failed or if the client is
\* not initialized.
C10_FirstTrustedCandidate ==
  \A p \in Procs : (pc[p] = "returned" /\ loc[p].direct) =>
    LET l == loc[p]
        threshold == IF l.min_success_rate = Null THEN <<4, 5>> ELSE l.min_success_rate[1]
        results == IF l.initialized /\ l.search_reply # Null /\ l.search_reply[1].kind = "ok"
                   THEN l.search_reply[1].result ELSE <<>>
        trusted == { i \in DOMAIN results :
                       /\ RatGE(results[i].payload.success_rate[1], threshold)
                       /\ results[i].payload.sample_count[1] >= 3 }
    IN WellFormed(results) =>
         IF trusted = {} THEN l.similar = Null
         ELSE \E i \in trusted :
                /\ \A j \in trusted : i <= j
                /\ l.similar # Null
                /\ l.similar[1].query_id = results[i].payload.query_id[1]
                /\ l.similar[1].similarity = results[i].score

\* Tier 1 found a rule for the query of p.
Tier1Hit(p) == \E i \in DOMAIN ROUTING_RULES : RuleMatches(ROUTING_RULES[i], loc[p].query)

\* C11: the similarity lookup is made only for a query no rule matches, the
\* reasoning tiers are selected only when no rule matched and the lookup
\* returned nothing, the route type of a query is the one of the first tier
\* that hit, and on a hit of the lookup the route type is similarity and
\* route_confidence is similarity times success rate.
C11_TiersExitEarly ==
  \A p \in Procs : ~loc[p].direct =>
    /\ "find_similar_call" \in Range(log[p]) => ~Tier1Hit(p)
    /\ loc[p].similar # Null => ~Tier1Hit(p)
    /\ "tier_selected" \in Range(log[p]) =>
         /\ loc[p].route_type \in { "keyword", "similarity", "slm", "classifier" }
         /\ loc[p].route_type = "keyword" <=> Tier1Hit(p)
         /\ loc[p].route_type = "similarity" <=> (~Tier1Hit(p) /\ loc[p].similar # Null)
         /\ loc[p].route_type \in { "slm", "classifier" }
              <=> (~Tier1Hit(p) /\ loc[p].similar = Null)
         /\ loc[p].route_type = "slm" => loc[p].exec_layer = "reasoning-slm"
         /\ loc[p].route_type = "classifier" => loc[p].exec_layer = "reasoning-classifier"
         /\ loc[p].similar # Null =>
              /\ loc[p].route_confidence[1] * loc[p].similar[1].similarity[2]
                   * loc[p].similar[1].success_rate[2]
                 = loc[p].similar[1].similarity[1] * loc[p].similar[1].success_rate[1]
                     * loc[p].route_confidence[2]
              /\ loc[p].exec_layer = loc[p].similar[1].execution_layer
    /\ resp[p] # Null => resp[p][1].route_type = loc[p].route_type

\* A query no rule matches was routed by a learned route and answered.
C11_Witness ==
  /\ resp["q1"] # Null
  /\ ~Tier1Hit("q1")
  /\ loc["q1"].similar # Null
  /\ resp["q1"][1].route_type = "similarity"
  /\ resp["q1"][1].route_confidence = <<171, 200>>

\* A direct store_outcome call of p whose statistics update reached the point:
\* the GET found it and the POST of the new statistics was accepted.
StatsUpdated(p) ==
  /\ loc[p].direct
  /\ pc[p] \in { "outcome_put", "returned" }
  /\ Len(log[p]) > 0 /\ log[p][1] = "store_outcome_call"
  /\ loc[p].before # Null
  /\ loc[p].patch # Null
  /\ "stats_patch" \notin loc[p].faults

\* a = (b * n + x) / m, for rationals a and b and integers n, x and m.
IsMean(a, b, n, x, m) == a[1] * b[2] * m = (b[1] * n + x * b[2]) * a[2]

\* C12: a store_outcome whose update reaches the decision point leaves there
\* sample_count = old + 1, success_rate = (old_rate * old_count + (1 if
\* success else 0)) / new_count and avg_latency_ms = (old_avg * old_count +
\* latency_ms) / new_count, and the success rate of every point stays within
\* 0 and 1.
C12_IncrementalMean ==
  /\ \A p \in Procs : StatsUpdated(p) =>
       LET old == loc[p].before[1]
           new == points[loc[p].query_id]
           o == loc[p].outcome[1]
           old_count == old.sample_count[1]
       IN /\ new.sample_count = Some(old_count + 1)
          /\ IsMean(new.success_rate[1], old.success_rate[1], old_count,
                    IF o.success THEN 1 ELSE 0, old_count + 1)
          /\ IsMean(new.avg_latency_ms[1], old.avg_latency_ms[1], old_count,
                    o.latency_ms, old_count + 1)
  /\ \A id \in DOMAIN points :
       LET rate == points[id].success_rate[1]
       IN rate[2] > 0 /\ 0 <= rate[1] /\ rate[1] <= rate[2]

\* The documented example: a failure of 300 ms recorded on a point with
\* success rate 1, one sample and 100 ms.
C12_Witness ==
  /\ StatsUpdated("q2")
  /\ loc["q2"].before[1].success_rate = Some(<<1, 1>>)
  /\ loc["q2"].before[1].sample_count = Some(1)
  /\ loc["q2"].before[1].avg_latency_ms = Some(<<100, 1>>)
  /\ ~loc["q2"].outcome[1].success
  /\ loc["q2"].outcome[1].latency_ms = 300
  /\ points[loc["q2"].query_id].sample_count = Some(2)
  /\ points[loc["q2"].query_id].success_rate = Some(<<1, 2>>)
  /\ points[loc["q2"].query_id].avg_latency_ms = Some(<<200, 1>>)

\* The statistics of a decision point.
Stats(payload) ==
  << payload.success_rate, payload.sample_count, payload.avg_latency_ms >>

\* C13: a decision point appears only by store_routing, keyed by the query id
\* and with success null, success_rate 0, sample_count 1 and avg_latency_ms 0;
\* the statistics of a stored point change only in a store_outcome for its own
\* query id, which is not the point a reused route came from; no point is
\* removed, and no other call, find_similar_route included, changes
\* statistics.
C13_StatisticsPerPoint ==
  [][ /\ DOMAIN points \subseteq DOMAIN points'
      /\ \A id \in DOMAIN points' :
           IF id \notin DOMAIN points
           THEN \E p \in Procs :
                  /\ pc[p] = "store_routing"
                  /\ loc[p].query_id = id
                  /\ points'[id].query_id = Some(id)
                  /\ points'[id].success = Null
                  /\ Stats(points'[id]) = << Some(<<0, 1>>), Some(1), Some(<<0, 1>>) >>
           ELSE Stats(points'[id]) # Stats(points[id]) =>
                  \E p \in Procs :
                    /\ pc[p] = "stats_patch"
                    /\ loc[p].query_id = id
                    /\ loc[p].outcome[1].query_id = id
                    /\ loc[p].similar # Null => loc[p].similar[1].query_id # id ]_vars

\* A decision was stored and its outcome recorded: the new point holds two
\* samples while the two points of earlier queries are as they were.
C13_Witness ==
  /\ StatsUpdated("q2")
  /\ loc["q2"].query_id \notin { 901, 902 }
  /\ points[loc["q2"].query_id].sample_count = Some(2)
  /\ points[901] = ExamplePayload(5)
  /\ points[902].sample_count = Some(1)
  /\ points[902].execution_layer = points[loc["q2"].query_id].execution_layer

\* A direct record_feedback call of p has returned.
FeedbackReturned(p) ==
  /\ loc[p].direct
  /\ pc[p] = "returned"
  /\ loc[p].feedback # None

\* The success rate find_similar_route compares with min_success for a
\* point: payload.get("success_rate", 0).
ComparedRate(payload) == Get(payload, "success_rate", Rat(0, 1))

\* C14: once record_feedback(query_id, negative) has returned true with its
\* penalty written to the decision point, the success rate find_similar_route
\* compares for that point is lower than before the call; positive feedback
\* leaves the point as it was, and with no outcome for the query id the call
\* returns false and leaves the point as it was.
C14_NegativeFeedbackLowersRate ==
  \A p \in Procs : (FeedbackReturned(p) /\ loc[p].before # Null) =>
    LET before == loc[p].before[1]
        after == points[loc[p].query_id]
        recorded == \E o \in outcomes : o.query_id = loc[p].query_id
    IN /\ ( /\ loc[p].feedback = "negative"
            /\ loc[p].ret = "true"
            /\ after.success_rate_adjustment = Some(FEEDBACK_PENALTY) )
            => ~RatGE(ComparedRate(after), ComparedRate(before))
       /\ loc[p].feedback = "positive" => after = before
       /\ ~recorded => (loc[p].ret = "false" /\ after = before)

\* The rest of C14 without the penalty: positive feedback and a query id with
\* no outcome leave the decision point as it was.
C14_Rest ==
  \A p \in Procs : (FeedbackReturned(p) /\ loc[p].before # Null) =>
    LET before == loc[p].before[1]
        after == points[loc[p].query_id]
        recorded == \E o \in outcomes : o.query_id = loc[p].query_id
    IN /\ loc[p].feedback = "positive" => after = before
       /\ ~recorded => (loc[p].ret = "false" /\ after = before)

\* Coroutine p enters wait_for_ready for layer l in this step.
EntersWait(p, l) ==
  /\ frame[p].layer = l
  /\ frame[p].phase = "first"
  /\ frame'[p].phase = "wait"

\* C15: the state map holds cold, warming or warm for each configured layer
\* and nothing else; a call for a layer that is not configured returns false
\* and leaves the map as it was; a health check that completes sets its
\* layer warm if the answer was 200 and cold if not, whatever the state
\* before, and no other layer; a layer becomes warming only as
\* wait_for_ready begins, and the map changes in no other step.
C15_LayerStates ==
  [][ /\ DOMAIN states' = LAYERS
      /\ \A l \in LAYERS : states'[l] \in { "cold", "warming", "warm" }
      /\ \A p \in Procs :
           (frame'[p] # frame[p] /\ frame'[p].layer \notin LAYERS \cup { None }) =>
             /\ states' = states
             /\ checked' = checked
             /\ frame'[p].ret = "false"
      /\ checked' # checked =>
           LET l == checked'.layer
           IN /\ l \in LAYERS
              /\ checked'.prior = states[l]
              /\ states'[l] = IF checked'.ok THEN "warm"
                              ELSE IF \E p \in Procs : EntersWait(p, l) THEN "warming"
                              ELSE "cold"
              /\ \A m \in LAYERS \ { l } : states'[m] = states[m]
      /\ \A l \in LAYERS :
           (states'[l] = "warming" /\ states[l] # "warming") =>
             \E p \in Procs : EntersWait(p, l)
      /\ states' # states => checked' # checked ]_vars

\* A layer tracked as warm was checked, did not answer 200 and is cold.
C15_Witness ==
  /\ checked.layer \in LAYERS
  /\ checked.prior = "warm"
  /\ ~checked.ok
  /\ states[checked.layer] = "cold"

\* A layer tracked as warming was checked, answered 200 and is warm.
C15_FromWarming ==
  /\ checked.layer \in LAYERS
  /\ checked.prior = "warming"
  /\ checked.ok
  /\ states[checked.layer] = "warm"

\* A call for a layer that is not configured has returned.
C15_Unconfigured ==
  \E p \in Procs : frame[p].layer \notin LAYERS \cup { None } /\ frame[p].ret = "false"

\* An ensure_ready call of p went through wait_for_ready and has returned.
WaitEnded(p) == Returned(p) /\ ~frame[p].first200

\* C16 as stated: a wait that ends in timeout leaves the cold-start counter
\* and the duration histogram of the layer as they were at the call, and a
\* wait that succeeds adds one to each.
C16_CountsOnSuccessOnly ==
  \A p \in Procs : WaitEnded(p) =>
    LET l == frame[p].layer
        ready == IF frame[p].ret = "true" THEN 1 ELSE 0
    IN /\ metrics.cold_starts_total[l] = frame[p].counted + ready
       /\ metrics.durations[l] = frame[p].observed + ready

\* C16: wait_for_ready counts one cold start as it begins, whether the wait
\* then succeeds or times out, and records a duration on success only: a
\* timeout leaves the histogram as it was and the counter one higher; a call
\* that does not wait changes neither.
C16_CountsEveryWait ==
  \A p \in Procs : Returned(p) =>
    LET l == frame[p].layer
        waits == IF frame[p].first200 THEN 0 ELSE 1
        ready == IF ~frame[p].first200 /\ frame[p].ret = "true" THEN 1 ELSE 0
    IN /\ metrics.cold_starts_total[l] = frame[p].counted + waits
       /\ metrics.durations[l] = frame[p].observed + ready
       /\ metrics.pending[l] = 0

\* A wait ended in timeout.
C16_Witness ==
  /\ WaitEnded("q2")
  /\ frame["q2"].ret = "false"
  /\ frame["q2"].waited >= WAKE_TIMEOUT
  /\ metrics.cold_starts_total[frame["q2"].layer] = frame["q2"].counted + 1
  /\ metrics.durations[frame["q2"].layer] = frame["q2"].observed

\* C17: with every health check answered within its timeout, an ensure_ready
\* call that has begun returns, true if one of its checks was answered 200
\* and false otherwise, and false only once the wake timeout has elapsed;
\* and a query that has arrived is answered.
C17_WaitTerminates ==
  (\E p \in Procs : pc[p] # "idle") ~>
    (\A p \in Procs : pc[p] # "idle" =>
       /\ pc[p] = "done"
       /\ resp[p] # Null
       /\ frame[p].probed
       /\ frame[p].phase = "none"
       /\ frame[p].ret \in { "true", "false" }
       /\ frame[p].ret = "true" <=> frame[p].saw200
       /\ frame[p].ret = "false" => frame[p].waited >= WAKE_TIMEOUT)

\* A query was answered although its layer never answered 200 within the
\* wake timeout.
C17_Witness ==
  /\ pc["q1"] = "done"
  /\ resp["q1"] # Null
  /\ ~resp["q1"][1].success
  /\ frame["q1"].polled
  /\ ~frame["q1"].saw200
  /\ frame["q1"].ret = "false"
  /\ frame["q1"].waited >= WAKE_TIMEOUT

\* Coroutine p, polling inside wait_for_ready, gets the answer to its check
\* in this step.
PollAnswered(p) ==
  /\ pc[p] = "check_health"
  /\ frame[p].phase = "wait"
  /\ pc'[p] # "check_health"

Succeeded(p) ==
  /\ resp[p] # Null
  /\ resp[p][1].success
  /\ frame[p].caller = "cascade"
  /\ frame[p].ret = "true"

\* C19: the response of a query whose wake and execution succeeded lists in
\* cold_starts no layer but the execution layer, and lists it only if the
\* first health check for the query found the layer not ready: a layer that
\* answered 200 to that check is not listed.
C19_ColdStartsOnlyIfCold ==
  \A p \in Procs : Succeeded(p) =>
    /\ Range(resp[p][1].cold_starts) \subseteq { loc[p].exec_layer }
    /\ loc[p].exec_layer \in Range(resp[p][1].cold_starts) => ~frame[p].first200
    /\ resp[p][1].layers_activated = << loc[p].exec_layer >>

\* A query whose layer was ready at its first check succeeded and lists no
\* cold start.
C19_Witness ==
  /\ Succeeded("q1")
  /\ frame["q1"].first200
  /\ resp["q1"][1].cold_starts = <<>>
  /\ resp["q1"][1].layers_activated = << loc["q1"].exec_layer >>

\* A query whose layer had to be waited for succeeded.
C19_Woken ==
  /\ Succeeded("q1")
  /\ frame["q1"].polled
  /\ ~frame["q1"].first200

\* How far statement i of detect_mode raised the mode in the last call.
StepsUp(i) == Rank(det.steps[i + 1].mode) - Rank(det.steps[i].mode)

\* C20: the mode detect_mode returns is never below the mode of the base
\* decision, no adjustment lowers the mode, low prior confidence, a prior
\* failure and multi-step language raise it by at most one step (multi-step
\* language only from llm to agent), and an expert level and investigation
\* language raise it only to hybrid.
C20_NeverDowngrades ==
  det.called =>
    /\ det.decision[1].mode \in QueryMode
    /\ det.steps[1] = BaseMode(det.found[1], det.complexity[1])
    /\ det.decision[1].mode = det.steps[6].mode
    /\ Rank(det.decision[1].mode) >= Rank(det.steps[1].mode)
    /\ \A i \in 1..5 : StepsUp(i) >= 0
    /\ StepsUp(1) <= 1
    /\ StepsUp(2) <= 1
    /\ StepsUp(3) > 0 => det.steps[4].mode = "hybrid"
    /\ StepsUp(4) <= 1
    /\ StepsUp(4) > 0 => det.steps[5].mode = "agent"
    /\ StepsUp(5) > 0 => det.steps[6].mode = "hybrid"

\* The documented example: a base decision of llm at 0.85 with a prior
\* confidence of 0.4 and nothing else comes out as agent at 0.65.
C20_Witness ==
  /\ det.called
  /\ det.steps[1].mode = "llm"
  /\ det.steps[1].confidence = 85
  /\ det.previous_confidence = Some(40)
  /\ det.decision[1].mode = "agent"
  /\ det.decision[1].confidence = 65
  /\ det.decision[1].escalation_reason = "low_confidence"

\* Every adjustment of one call applied: llm was raised to agent, then to
\* hybrid.
C20_AllAdjustments ==
  /\ det.called
  /\ det.steps[1].mode = "llm"
  /\ det.steps[2].mode = "agent"
  /\ det.steps[3].mode = "hybrid"
  /\ det.complexity[1].level = "expert"
  /\ det.complexity[1].factors = DetectedFactors

\* One step up in the order llm, agent, hybrid; hybrid is the top.
OneStepUp(mode) == IF mode = "llm" THEN "agent" ELSE "hybrid"

\* C21: with a failed prior outcome the adjustment for it raises the mode by
\* one step (llm to agent, agent to hybrid, hybrid stays) and sets the
\* confidence to max(0.3, confidence - 0.3).
C21_FailureEscalatesOneStep ==
  (det.called /\ det.previous_success = Some(FALSE)) =>
    /\ det.steps[3].mode = OneStepUp(det.steps[2].mode)
    /\ det.steps[3].confidence = Max(30, det.steps[2].confidence - 30)

\* The rest of C21: agent becomes hybrid, hybrid stays, and the confidence
\* is max(0.3, confidence - 0.3).
C21_Rest ==
  (det.called /\ det.previous_success = Some(FALSE)) =>
    /\ det.steps[2].mode # "llm" => det.steps[3].mode = "hybrid"
    /\ det.steps[3].confidence = Max(30, det.steps[2].confidence - 30)
    /\ det.steps[3].escalation_reason = "previous_failure"

\* No adjustment but the one for low prior confidence can apply to the call.
OnlyConfidence ==
  /\ det.called
  /\ det.previous_success # Some(FALSE)
  /\ det.complexity[1].level # "expert"
  /\ det.complexity[1].factors = {}

\* C22: when nothing else adjusts, a prior confidence below 0.5 raises the
\* mode of the base decision by one step (hybrid stays) and sets the
\* confidence to max(0.3, confidence - 0.2); a prior confidence of 0.5 or
\* more, or none, leaves the base decision as it is, with no escalation
\* reason.
C22_LowConfidenceEscalates ==
  OnlyConfidence =>
    LET base == det.steps[1]
        out == det.decision[1]
    IN IF det.previous_confidence # Null /\ det.previous_confidence[1] < 50
       THEN /\ out.mode = OneStepUp(base.mode)
            /\ out.confidence = Max(30, base.confidence - 20)
            /\ out.escalation_reason = "low_confidence"
       ELSE /\ out.mode = base.mode
            /\ out.confidence = base.confidence
            /\ out.escalation_reason = None

\* The documented example, with nothing else adjusting: llm at 0.85 and a
\* prior confidence of 0.4 give agent at 0.65.
C22_Witness ==
  /\ OnlyConfidence
  /\ det.steps[1].mode = "llm"
  /\ det.steps[1].confidence = 85
  /\ det.previous_confidence = Some(40)
  /\ det.decision[1].mode = "agent"
  /\ det.decision[1].confidence = 65

\* A prior confidence of exactly 0.5 left the base decision as it was.
C22_AtThreshold ==
  /\ OnlyConfidence
  /\ det.previous_confidence = Some(50)
  /\ det.decision[1].mode = "llm"
  /\ det.decision[1].confidence = 85

C23_Timeout ==
  /\ esc.called
  /\ esc.ctx[1].current_mode = "llm"
  /\ esc.ctx[1].last_error = Some("Read Timeout")
  /\ esc.ret[1] = << TRUE, "agent", "timeout" >>

\* C24: should_escalate returns (False, None, None) for hybrid, whatever the
\* error, latency, success rate and attempt count; when it returns True the
\* new mode is one step above the current mode and the reason is not None;
\* when it returns False the new mode and the reason are None.
C24_NeverPastHybrid ==
  esc.called =>
    LET ctx == esc.ctx[1]
        ret == esc.ret[1]
    IN /\ ctx.current_mode = "hybrid" => ret = << FALSE, None, None >>
       /\ ret[1] \in BOOLEAN
       /\ IF ret[1]
          THEN /\ ret[2] \in QueryMode
               /\ Rank(ret[2]) = Rank(ctx.current_mode) + 1
               /\ ret[3] \in EscalationReasons
          ELSE ret[2] = None /\ ret[3] = None

\* Hybrid on its first attempt, with an error, a latency over the threshold
\* and a low success rate: no escalation.
C24_Witness ==
  /\ esc.called
  /\ esc.ctx[1].current_mode = "hybrid"
  /\ esc.ctx[1].attempt_count = 1
  /\ esc.ctx[1].last_error = Some("timeout after 30s")
  /\ esc.ctx[1].last_latency_ms = Some(60001)
  /\ esc.ctx[1].similar_query_success_rate = Some(0)
  /\ esc.ret[1] = << FALSE, None, None >>

\* Every reason and both steps are returned by some call.
C24_Escalated ==
  /\ esc.called
  /\ esc.ctx[1].current_mode = "agent"
  /\ esc.ctx[1].last_error = Null
  /\ esc.ctx[1].last_latency_ms = Some(30001)
  /\ esc.ret[1] = << TRUE, "hybrid", "timeout" >>

\* No variable but scored differs from its initial value.
OnlyScored ==
  /\ states = [l \in LAYERS |-> "cold"]
  /\ points = <<>>
  /\ outcomes = {}
  /\ nextId = 1
  /\ det = NoDetect
  /\ esc = NoEscalate
  /\ \A p \in Procs : pc[p] = "idle" /\ resp[p] = Null /\ loc[p] = NoQuery

C25_Simple ==
  /\ scored.calls = 1
  /\ scored.result[1].score = 22
  /\ scored.result[1].level = "simple"

\* The four levels and the two thresholds next to a level change are scored.
C25_Levels ==
  /\ scored.calls = 1
  /\ scored.result[1].score = 50
  /\ scored.result[1].level = "moderate"

\* The route find_similar_route built from a payload without an execution
\* layer or without a tool.
MalformedRoute(similar) ==
  similar # Null /\ (similar[1].execution_layer = "" \/ similar[1].tool = "")

\* The tier of query p has been selected.
TierSelected(p) ==
  ~loc[p].direct /\ \E i \in DOMAIN log[p] : log[p][i] = "tier_selected"

\* C26: when the candidate the similarity lookup returns lacks an execution
\* layer or a tool, the cascade selects what it selects on a miss: the
\* reasoning layer and route type the keyword check names, confidence 0 and
\* no tool.
C26_MalformedIsMiss ==
  \A p \in Procs :
    (TierSelected(p) /\ MalformedRoute(loc[p].similar)) =>
      /\ loc[p].route_type = (IF needs_reasoning(loc[p].query) THEN "slm" ELSE "classifier")
      /\ loc[p].exec_layer = (IF needs_reasoning(loc[p].query) THEN "reasoning-slm"
                              ELSE "reasoning-classifier")
      /\ loc[p].route_confidence = ZeroConfidence
      /\ loc[p].tool_selected = None

\* What C26 is right about: a candidate without an execution layer never
\* makes the similarity tier the route, the reasoning tier the keyword check
\* names is selected.
C26_Rest ==
  \A p \in Procs :
    (TierSelected(p) /\ loc[p].similar # Null
       /\ loc[p].similar[1].execution_layer = "") =>
      /\ loc[p].route_type = (IF needs_reasoning(loc[p].query) THEN "slm" ELSE "classifier")
      /\ loc[p].exec_layer = (IF needs_reasoning(loc[p].query) THEN "reasoning-slm"
                              ELSE "reasoning-classifier")

\* The cascade has answered query p with the learning client enabled.
Answered(p) == learning = "enabled" /\ ~loc[p].direct /\ resp[p] # Null

\* C27: with the learning client enabled every query creates exactly one
\* RoutingDecision and hands store_routing that one, and attempts to record
\* exactly one RoutingOutcome with the query's id, on every path.
C27_OneDecisionOneOutcome ==
  \A p \in Procs : Answered(p) =>
    /\ Count(log[p], "store_decision_call") = 1
    /\ Count(log[p], "store_outcome_call") = 1
    /\ loc[p].outcome # Null
    /\ loc[p].outcome[1].query_id = loc[p].query_id

\* What C27 is right about: one outcome with the query's id on every path,
\* and one decision unless its embedding raised, never two.
C27_Rest ==
  \A p \in Procs : Answered(p) =>
    /\ Count(log[p], "store_decision_call") <= 1
    /\ "embed" \notin loc[p].faults => Count(log[p], "store_decision_call") = 1
    /\ Count(log[p], "store_outcome_call") = 1
    /\ loc[p].outcome # Null
    /\ loc[p].outcome[1].query_id = loc[p].query_id

\* Query p is a query of the cascade, past its tier selection.
Routed(p) == TierSelected(p)

C28_Unavailable ==
  /\ resp["q1"] # Null
  /\ frame["q1"].ret = "false"
  /\ Count(log["q1"], "ensure_ready_call") = 1
  /\ Count(log["q1"], "exec_call") = 0

\* The words needs_reasoning looks for, as far as the queries of the model
\* have them.
Investigative(query) ==
  \E i \in DOMAIN query :
    \/ Lower(query[i]) \in { "why", "investigate", "analyze", "troubleshoot", "explain" }
    \/ /\ i + 1 \in DOMAIN query
       /\ Lower(query[i]) = "figure"
       /\ Lower(query[i + 1]) = "out"

\* Query p missed the rule tier and the similarity tier.
MissedBoth(p) == Routed(p) /\ loc[p].rule = 0 /\ loc[p].similar = Null

\* C29: a query that misses both tiers goes to reasoning-slm with route type
\* slm if it has investigative language and to reasoning-classifier with
\* route type classifier if not; ensure_ready, the execution call and the
\* response name that layer and route type.
C29_KeywordPicksReasoningTier ==
  \A p \in Procs : MissedBoth(p) =>
    LET heavy == Investigative(loc[p].query)
    IN /\ loc[p].exec_layer = (IF heavy THEN "reasoning-slm" ELSE "reasoning-classifier")
       /\ loc[p].route_type = (IF heavy THEN "slm" ELSE "classifier")
       /\ "ensure_ready_call" \in Range(log[p]) => frame[p].layer = loc[p].exec_layer
       /\ resp[p] # Null =>
            /\ resp[p][1].route_type = loc[p].route_type
            /\ resp[p][1].layers_activated \in { <<>>, << loc[p].exec_layer >> }

\* "Why is wifi slow" was answered by the full-reasoning layer.
C29_Witness ==
  /\ resp["q1"] # Null
  /\ MissedBoth("q1")
  /\ loc["q1"].query = << "Why", "is", "wifi", "slow" >>
  /\ resp["q1"][1].route_type = "slm"
  /\ resp["q1"][1].layers_activated = << "reasoning-slm" >>

\* "hello" was answered by the classifier layer.
C29_Light ==
  /\ resp["q1"] # Null
  /\ MissedBoth("q1")
  /\ loc["q1"].query = << "hello" >>
  /\ resp["q1"][1].route_type = "classifier"
  /\ resp["q1"][1].layers_activated = << "reasoning-classifier" >>

\* The ComplexityScore of the query of p.
ScoreOf(p) == score_complexity(TextOf(loc[p].query), Null)

\* C30: when both tiers miss, a query that score_complexity scores complex or
\* expert is sent to the full-reasoning layer, whatever keywords it has.
C30_ScorePicksReasoningTier ==
  \A p \in Procs :
    (MissedBoth(p) /\ ScoreOf(p).level \in { "complex", "expert" }) =>
      /\ loc[p].exec_layer = "reasoning-slm"
      /\ loc[p].route_type = "slm"

\* What the cascade does instead: the keyword check alone picks the layer,
\* whatever the score.
C30_Rest ==
  \A p \in Procs :
    MissedBoth(p) =>
      loc[p].exec_layer = (IF needs_reasoning(loc[p].query) THEN "reasoning-slm"
                           ELSE "reasoning-classifier")

\* C31 as stated: no adjustment of detect_mode leaves the confidence higher
\* than it was before it, and the confidence returned is at most the base
\* confidence.
C31_OnlyLowers ==
  det.called =>
    /\ \A i \in 1..5 : det.steps[i + 1].confidence <= det.steps[i].confidence
    /\ det.decision[1].confidence <= det.steps[1].confidence

\* C31: the adjustments for low prior confidence and for a prior failure
\* never raise the confidence; the expert and multi-step adjustments leave it
\* at most the larger of what it was and their floors 0.4 and 0.5; the
\* investigation adjustment sets it to 0.7; the confidence returned is at
\* least 0.3 and at most the larger of the base confidence and 0.7.
C31_ConfidenceBounded ==
  det.called =>
    /\ det.steps[2].confidence <= det.steps[1].confidence
    /\ det.steps[3].confidence <= det.steps[2].confidence
    /\ det.steps[4].confidence <= Max(det.steps[3].confidence, 40)
    /\ det.steps[5].confidence <= Max(det.steps[4].confidence, 50)
    /\ det.steps[6].confidence \in { det.steps[5].confidence, 70 }
    /\ det.decision[1].confidence >= 30
    /\ det.decision[1].confidence <= Max(det.steps[1].confidence, 70)

\* After a low prior confidence and a prior failure the confidence is at the
\* floor 0.3, and the expert adjustment raises it to its own floor 0.4.
C31_Witness ==
  /\ det.called
  /\ det.steps[1].confidence = 60
  /\ det.steps[3].confidence = 30
  /\ det.steps[4].confidence = 40
  /\ det.decision[1].confidence = 40

\* A base confidence of 0.6 and investigation language: 0.7 is returned.
C31_Investigation ==
  /\ det.called
  /\ det.steps[1].confidence = 60
  /\ det.previous_confidence = Null
  /\ det.previous_success = Null
  /\ det.decision[1].confidence = 70

\* The call is one with the expert level or with investigation or
\* troubleshoot language.
Forcing == det.complexity[1].level = "expert"
Investigating == det.complexity[1].factors \cap { "investigate", "troubleshoot" } # {}

\* C32: detect_mode returns hybrid whenever the level is expert or the
\* investigate or troubleshoot factor was found, whatever the patterns, the
\* prior confidence and the prior outcome; with one of the two factors the
\* confidence returned is 0.7 and the escalation reason investigation.
C32_ForcedHybrid ==
  det.called =>
    /\ (Forcing \/ Investigating) => det.decision[1].mode = "hybrid"
    /\ Forcing => \A i \in 4..6 : det.steps[i].mode = "hybrid"
    /\ Investigating =>
         /\ det.decision[1].confidence = 70
         /\ det.decision[1].escalation_reason = "investigation"

\* An answer-only query with a high prior confidence, the expert level and
\* troubleshoot language: hybrid at 0.7, reason investigation.
C32_Witness ==
  /\ det.called
  /\ det.steps[1].mode = "llm"
  /\ det.previous_confidence = Some(90)
  /\ det.previous_success = Some(TRUE)
  /\ Forcing
  /\ "troubleshoot" \in det.complexity[1].factors
  /\ det.decision[1].mode = "hybrid"
  /\ det.decision[1].confidence = 70
  /\ det.decision[1].escalation_reason = "investigation"

\* The expert level alone, with multi-step language: hybrid, reason
\* multi_step.
C32_Expert ==
  /\ det.called
  /\ Forcing
  /\ det.complexity[1].factors = { "multi_step" }
  /\ det.steps[1].mode = "llm"
  /\ det.decision[1].mode = "hybrid"
  /\ det.decision[1].escalation_reason = "multi_step"

\* A direct store_outcome call of p has returned.
OutcomeReturned(p) ==
  /\ loc[p].direct
  /\ pc[p] = "returned"
  /\ Len(log[p]) > 0 /\ log[p][1] = "store_outcome_call"

\* The statistics update of p's call did not reach the decision point: there
\* is no such point, or the GET or the POST failed.
StatsMissed(p) ==
  loc[p].before = Null \/ loc[p].faults \cap { "stats_get", "stats_patch" } # {}

\* C33: a store_outcome whose statistics update fails (no decision point, or
\* the GET or the POST fails) leaves the decision points as they were and
\* still issues the PUT of the outcome record; it returns True exactly when
\* that PUT was accepted, and a client that is not initialized returns False
\* without a store call.
C33_StepsIndependent ==
  \A p \in Procs : OutcomeReturned(p) =>
    IF ~loc[p].initialized
    THEN /\ loc[p].ret = "false"
         /\ log[p] = << "store_outcome_call" >>
         /\ loc[p].patch = Null
         /\ loc[p].outcome[1] \notin outcomes
    ELSE /\ "store_outcome_ret" \in Range(log[p])
         /\ loc[p].ret = "true" <=> loc[p].outcome[1] \in outcomes
         /\ loc[p].ret = "true" <=> "outcome_put" \notin loc[p].faults
         /\ StatsMissed(p) =>
              IF loc[p].before = Null THEN loc[p].query_id \notin DOMAIN points
              ELSE points[loc[p].query_id] = loc[p].before[1]

\* The GET of the decision point failed, the statistics are as before and
\* the outcome record was stored.
C33_Witness ==
  /\ OutcomeReturned("q2")
  /\ loc["q2"].initialized
  /\ "stats_get" \in loc["q2"].faults
  /\ loc["q2"].before # Null
  /\ points[loc["q2"].query_id] = loc["q2"].before[1]
  /\ loc["q2"].outcome[1] \in outcomes
  /\ loc["q2"].ret = "true"

\* The statistics were updated and the PUT of the outcome failed: False.
C33_PutFailed ==
  /\ OutcomeReturned("q2")
  /\ StatsUpdated("q2")
  /\ "outcome_put" \in loc["q2"].faults
  /\ loc["q2"].ret = "false"
  /\ points[loc["q2"].query_id] # loc["q2"].before[1]

\* What the entities added to the score of the first call.
EntityAdjustment ==
  LET f == scored.result[1].factors
  IN IF "entities" \in DOMAIN f THEN f["entities"] ELSE 0

\* The sum of the other factors of the first call.
OtherFactors ==
  LET f == scored.result[1].factors
  IN SumOf([n \in DOMAIN f \ { "entities" } |-> f[n]])

\* C34 as stated: with n entities the adjustment is 0 for n <= 2 and
\* 3 * (n - 2) for n > 2.
C34_ThreePerExtraEntity ==
  scored.calls >= 1 =>
    LET n == scored.text[1].entity_count
    IN EntityAdjustment = (IF n <= 2 THEN 0 ELSE 3 * (n - 2))

\* C34: with n entities the adjustment is 0 for n <= 2 and 3 * n for n > 2,
\* and the score is the clamped sum of the baseline, the other factors and
\* this adjustment.
C34_ThreePerEntityOverTwo ==
  scored.calls >= 1 =>
    LET n == scored.text[1].entity_count
    IN /\ EntityAdjustment = (IF n <= 2 THEN 0 ELSE 3 * n)
       /\ scored.result[1].score = Clamp(50 + OtherFactors + EntityAdjustment)

\* Three entities in a short query with nothing else: 50 - 10 + 9 = 49.
C34_Witness ==
  /\ scored.calls >= 1
  /\ scored.text[1].entity_count = 3
  /\ scored.text[1].matches = {}
  /\ scored.text[1].length = 10
  /\ scored.text[1].question_count = 0
  /\ scored.context = Null
  /\ EntityAdjustment = 9
  /\ scored.result[1].score = 49

\* Two entities add nothing.
C34_Two ==
  /\ scored.calls >= 1
  /\ scored.text[1].entity_count = 2
  /\ scored.text[1].matches = {}
  /\ scored.text[1].length = 10
  /\ scored.text[1].question_count = 0
  /\ scored.context = Null
  /\ scored.result[1].score = 40

\* C35, acknowledged late: a task message is acknowledged only after its
\* handler has completed and its result has been published; a message whose
\* handler or publish raised is not acknowledged; and whenever the loop takes
\* a message up, self._status is ready (the finally clause of the message
\* before it has set it back, or the loop has ended).
C35_AckAfterPublish ==
  /\ consumer.acked \subseteq consumer.handled \cap consumer.published
  /\ consumer.at = "ack_message" => consumer.message \in consumer.published
  /\ \A f \in consumer.raised :
       f[2] \in { "task_handler", "publish_result" } => f[1] \notin consumer.acked
  /\ \A i \in DOMAIN consumer.taken : consumer.taken[i].status = "ready"

\* C35 witness: the handler of the first message raised, the message stays
\* unacknowledged, and the second message has been taken up with status
\* ready and acknowledged after its result was published.
C35_Witness ==
  /\ << "t1", "task_handler" >> \in consumer.raised
  /\ "t1" \notin consumer.acked
  /\ Len(consumer.taken) = 2
  /\ consumer.taken[2].status = "ready"
  /\ "t2" \in consumer.acked \cap consumer.published

\* C35, the publish case: a message whose publish raised was handled and is
\* left unacknowledged.
C35_PublishRaised ==
  /\ << "t1", "publish_result" >> \in consumer.raised
  /\ "t1" \in consumer.handled
  /\ "t1" \notin consumer.acked \cup consumer.published
  /\ consumer.at = "xreadgroup"
  /\ consumer.status = "ready"

C37_WarmAtReturn ==
  [][ /\ \A p \in Procs :
           (frame[p].ret # "true" /\ frame'[p].ret = "true")
             => states'[frame'[p].layer] = "warm"
      /\ loc'["q1"].cold_starts = <<>>
      /\ resp'["q1"] # Null => resp'["q1"][1].cold_starts = <<>> ]_vars

\* C37 witness: the query had to wait for its layer (its first check failed,
\* a poll of the wait loop was answered 200) while another caller waited for
\* the same layer, and its successful response lists no cold start.
C37_Witness ==
  /\ pc["q1"] = "done"
  /\ resp["q1"] # Null
  /\ resp["q1"][1].success
  /\ resp["q1"][1].cold_starts = <<>>
  /\ frame["q1"].polled
  /\ frame["q1"].ret = "true"
  /\ ~frame["q1"].first200
  /\ frame["q2"].layer = frame["q1"].layer
  /\ frame["q2"].polled

\* The store_outcome calls on decision id that have returned after the store
\* answered both the GET and the POST of the statistics with 200.
Updated(id) ==
  { p \in Procs : /\ pc[p] = "returned"
                  /\ loc[p].initialized
                  /\ loc[p].query_id = id
                  /\ loc[p].faults \cap { "stats_get", "stats_patch" } = {} }

\* The statistics of a point after the outcomes of the calls in done, one
\* after the other.
RECURSIVE StatsAfter(_, _)
StatsAfter(payload, done) ==
  IF done = {} THEN [ success_rate |-> payload.success_rate[1],
                      sample_count |-> payload.sample_count[1] ]
  ELSE LET p == CHOOSE q \in done : TRUE
           rest == StatsAfter(payload, done \ { p })
           n == NewStats([payload EXCEPT !.success_rate = Some(rest.success_rate),
                                         !.sample_count = Some(rest.sample_count)],
                         loc[p].outcome[1])
       IN [ success_rate |-> n.success_rate, sample_count |-> n.sample_count ]

\* C38, no lost update: once every store_outcome call has returned, each
\* decision point has the sample_count it started with plus the number of
\* calls that updated it, and the success_rate of all those samples.
C38_NoLostUpdate ==
  (\A p \in Procs : pc[p] \in { "idle", "returned" }) =>
    \E initial \in InitialPoints :
      \A id \in DOMAIN points :
        /\ points[id].sample_count =
             Some(initial[id].sample_count[1] + Cardinality(Updated(id)))
        /\ points[id].sample_count = Some(StatsAfter(initial[id], Updated(id)).sample_count)
        /\ points[id].success_rate = Some(StatsAfter(initial[id], Updated(id)).success_rate)

\* C38, one call at a time: a call that ran from its GET to its POST with no
\* other call on the same point in between leaves the statistics of the point
\* as it found them plus its own outcome.
C38_AloneIsExact ==
  \A p \in Procs :
    (/\ p \in Updated(loc[p].query_id)
     /\ loc[p].query_id \in DOMAIN points
     /\ loc[p].before # Null
     /\ \A q \in Procs \ { p } : loc[q].query_id # loc[p].query_id)
    => /\ points[loc[p].query_id].sample_count =
            Some(NewStats(loc[p].before[1], loc[p].outcome[1]).sample_count)
       /\ points[loc[p].query_id].success_rate =
            Some(NewStats(loc[p].before[1], loc[p].outcome[1]).success_rate)

\* C38, the lost update: two calls on the same point have both been answered
\* 200 throughout, and the point counts one sample more, not two.
C38_Lost ==
  \E id \in DOMAIN points : \E initial \in InitialPoints :
    /\ Updated(id) = Procs
    /\ points[id].sample_count = Some(initial[id].sample_count[1] + 1)

\* C39, escalation terminates: a retry loop that adopts new_mode whenever
\* should_escalate returns true escalates at most twice, each time to a
\* higher mode, and once an attempt runs in hybrid every answer is (False,
\* None, None) and every later attempt runs in hybrid.
C39_EscalationTerminates ==
  /\ Escalations(retry) <= 2
  /\ \A i \in DOMAIN retry.attempts :
       LET a == retry.attempts[i]
       IN /\ a.ret[1] => (a.ret[2] \in QueryMode /\ Rank(a.ret[2]) > Rank(a.mode))
          /\ a.mode = "hybrid" => a.ret = NoEscalation
          /\ \A j \in DOMAIN retry.attempts :
               (i < j /\ a.mode = "hybrid") => retry.attempts[j].mode = "hybrid"
  /\ (retry.attempts # <<>> /\ retry.attempts[Len(retry.attempts)].mode = "hybrid")
       => retry.mode = "hybrid"

\* C39 witness: a loop that started in llm has escalated twice, to agent and
\* to hybrid, and its later attempts in hybrid ended in errors without
\* another escalation.
C39_Witness ==
  /\ Len(retry.attempts) = 4
  /\ retry.attempts[1].mode = "llm"
  /\ retry.attempts[1].ret[1]
  /\ retry.attempts[2].mode = "agent"
  /\ retry.attempts[2].ret[1]
  /\ retry.attempts[3].mode = "hybrid"
  /\ retry.attempts[3].failed
  /\ retry.attempts[3].ret = NoEscalation
  /\ retry.attempts[4].mode = "hybrid"
  /\ retry.attempts[4].failed
  /\ retry.mode = "hybrid"
  /\ Escalations(retry) = 2

\* C39, no trigger: a loop in llm whose attempts give no reason to escalate
\* stays in llm.
C39_Stays ==
  /\ Len(retry.attempts) = 2
  /\ retry.mode = "llm"
  /\ Escalations(retry) = 0

\* The wait_for_ready calls in flight for a layer.
InFlight(l) == { p \in Procs : frame[p].phase = "wait" /\ frame[p].layer = l }

\* C40, the gauge counts the waits: for every layer the pending-requests
\* gauge equals the number of wait_for_ready calls in flight for it, so it
\* is never negative and is zero whenever no wait is in progress, however a
\* wait ends.
C40_GaugeCountsWaits ==
  \A l \in LAYERS :
    /\ metrics.pending[l] = Cardinality(InFlight(l))
    /\ metrics.pending[l] >= 0
    /\ InFlight(l) = {} => metrics.pending[l] = 0

\* C40 witness: the gauge of a layer is back to zero after one wait for it
\* was cancelled and another, concurrent one timed out.
C40_Witness ==
  /\ frame["q1"].ret = "cancelled"
  /\ ~frame["q1"].first200
  /\ frame["q1"].polled
  /\ frame["q2"].ret = "false"
  /\ frame["q2"].waited >= WAKE_TIMEOUT
  /\ frame["q1"].layer = frame["q2"].layer
  /\ metrics.cold_starts_total[frame["q1"].layer] = 2
  /\ metrics.pending[frame["q1"].layer] = 0

\* C40, two at once: both coroutines are inside wait_for_ready for the same
\* layer and the gauge reads two.
C40_Two ==
  \E l \in LAYERS : InFlight(l) = Procs /\ metrics.pending[l] = 2
====
